---- MODULE Spec2Model ----
(***************************************************************************)
(* ProTracker v1 (server.js): prop-line imports, the per-date archive,     *)
(* the line-move differ, the line simulator and the two edge endpoints,    *)
(* as a state machine over the stored database.                            *)
(*                                                                         *)
(* Representation.                                                         *)
(*  - A JS string is the sequence of its character codes ("pts" is         *)
(*    <<112,116,115>>), so toLowerCase, trim, includes, the whitespace     *)
(*    collapse and the ISO-date test are computed, not assumed.  The empty *)
(*    sequence is "" and also stands for an absent / undefined / null      *)
(*    string field: the code only ever tests such fields for truthiness.   *)
(*  - A JS number is an integer count of thousandths (24.5 is 24500).      *)
(*    A value that may be NaN / undefined is <<>> (not finite) or <<n>>.   *)
(*  - Means are exact rationals [n, d] of thousandths; toFixed rounds the  *)
(*    exact value half away from zero (binary floating-point error of the  *)
(*    JS doubles is not modelled).                                         *)
(*  - Wall-clock fields (ts, archivedAt, generatedAt) are not modelled.    *)
(*  - A handler runs as one step, except in SpecOverlap, where the two     *)
(*    awaits of a mutating handler (readDB, writeDB) are separate steps    *)
(*    and inflight holds the handlers that are between them.               *)
(***************************************************************************)
EXTENDS Integers, Sequences, FiniteSets, TLC

VARIABLES nbaPlayerGameLogs, sgoPropLines, hardrockPropLines, propsArchive,
          cache, req, res, inflight

vars == <<nbaPlayerGameLogs, sgoPropLines, hardrockPropLines, propsArchive,
          cache, req, res, inflight>>

dbVars == <<nbaPlayerGameLogs, sgoPropLines, hardrockPropLines, propsArchive>>

(***************************************************************************)
(* Bounds of the model.                                                    *)
(***************************************************************************)
\* stored prop lines per source
MaxProps == 2
\* rows in one import request
MaxBatch == 2
\* a simulated line never exceeds this many whole units
MaxLineUnits == 25
\* the longest list of game logs the projection specification starts from
MaxProjLogs == 3
\* players of the large game-log collection (one more than a leaderboard holds)
ManyPlayers == 26
\* pieces of a stat label
MaxTokens == 3

(***************************************************************************)
(* Strings                                                                 *)
(***************************************************************************)
Min(a, b) == IF a <= b THEN a ELSE b
Max(a, b) == IF a >= b THEN a ELSE b
Abs(x) == IF x < 0 THEN -x ELSE x

ToLowerCh(c) == IF c >= 65 /\ c <= 90 THEN c + 32 ELSE c
ToLower(s) == [i \in 1..Len(s) |-> ToLowerCh(s[i])]

\* \s of a JS regular expression and of String.prototype.trim (ASCII part)
IsWs(c) == c \in {9, 10, 11, 12, 13, 32}

RECURSIVE TrimStart(_)
TrimStart(s) == IF s # <<>> /\ IsWs(Head(s)) THEN TrimStart(Tail(s)) ELSE s

RECURSIVE TrimEnd(_)
TrimEnd(s) ==
  IF s # <<>> /\ IsWs(s[Len(s)]) THEN TrimEnd(SubSeq(s, 1, Len(s) - 1)) ELSE s

Trim(s) == TrimEnd(TrimStart(s))

\* s.replace(/\s+/g, " ")
RECURSIVE CollapseWs(_)
CollapseWs(s) ==
  IF s = <<>> THEN <<>>
  ELSE IF IsWs(Head(s)) THEN <<32>> \o CollapseWs(TrimStart(s))
  ELSE <<Head(s)>> \o CollapseWs(Tail(s))

\* s.includes(sub)
Includes(s, sub) ==
  \E i \in 1..(Len(s) - Len(sub) + 1) : SubSeq(s, i, i + Len(sub) - 1) = sub

IsDigit(c) == c >= 48 /\ c <= 57

isValidISODate(s) ==
  /\ Len(s) = 10
  /\ \A i \in 1..10 : IF i \in {5, 8} THEN s[i] = 45 ELSE IsDigit(s[i])

\* a < b on strings (code-unit order)
RECURSIVE StrLess(_, _)
StrLess(a, b) ==
  IF b = <<>> THEN FALSE
  ELSE IF a = <<>> THEN TRUE
  ELSE IF Head(a) # Head(b) THEN Head(a) < Head(b)
  ELSE StrLess(Tail(a), Tail(b))

compareISODate(a, b) == IF StrLess(a, b) THEN -1 ELSE IF StrLess(b, a) THEN 1 ELSE 0

(***************************************************************************)
(* String literals of the code and of the requests                         *)
(***************************************************************************)
\* "2025-01-05", "2025-01-06"
D1 == <<50, 48, 50, 53, 45, 48, 49, 45, 48, 53>>
D2 == <<50, 48, 50, 53, 45, 48, 49, 45, 48, 54>>
\* "2025-1-5": not YYYY-MM-DD
BadDate == <<50, 48, 50, 53, 45, 49, 45, 53>>
\* "2025-01-07"
D3 == <<50, 48, 50, 53, 45, 48, 49, 45, 48, 55>>
\* "2025-01-01" and "2025-01-03", the game dates
G1 == <<50, 48, 50, 53, 45, 48, 49, 45, 48, 49>>
G2 == <<50, 48, 50, 53, 45, 48, 49, 45, 48, 51>>
\* "2025-01-04"
G3 == <<50, 48, 50, 53, 45, 48, 49, 45, 48, 52>>

S_all == <<97, 108, 108>>
S_sgo == <<115, 103, 111>>
S_SGO == <<83, 71, 79>>
S_hardrock == <<104, 97, 114, 100, 114, 111, 99, 107>>
S_points == <<112, 111, 105, 110, 116, 115>>
S_Points == <<80, 111, 105, 110, 116, 115>>
S_rebounds == <<114, 101, 98, 111, 117, 110, 100, 115>>
S_unknown == <<85, 110, 107, 110, 111, 119, 110>>
\* player ids "1", "2"; the names "Al  Smith" (two blanks), " al smith",
\* " Bo " and the team "LAL"
P1 == <<49>>
P2 == <<50>>
N_AlSmith == <<65, 108, 32, 32, 83, 109, 105, 116, 104>>
N_alsmith == <<32, 97, 108, 32, 115, 109, 105, 116, 104>>
N_Bo == <<32, 66, 111, 32>>
T_LAL == <<76, 65, 76>>
\* the name "BO"
N_BO == <<66, 79>>
\* the JSON value [] sent as an id or a date: it is truthy and String([]) is ""
EmptyArray == <<-1>>

\* String(x) of an id or a date that is a string or []
Str(x) == IF x = EmptyArray THEN <<>> ELSE x

(***************************************************************************)
(* Numbers                                                                 *)
(***************************************************************************)
\* A raw JSON value of a row: a number, null, a non-numeric string, or no
\* such field at all (undefined).
NumV(n) == [k |-> "num", v |-> n]
NullV == [k |-> "null", v |-> 0]
TextV == [k |-> "text", v |-> 0]
AbsentV == [k |-> "absent", v |-> 0]
\* a number given in ten-thousandths (0.0004 is FineV(4))
FineV(n) == [k |-> "fine", v |-> n]

\* Number(x) followed by the Number.isFinite test: Number(null) is 0,
\* Number("abc") and Number(undefined) are NaN.
ToNumber(x) == IF x.k \in {"text", "absent"} THEN <<>> ELSE <<x.v>>

\* a ?? null
OrNull(x) == IF x.k = "absent" THEN NullV ELSE x

\* Exact quotients n / d (d > 0) of thousandths
Rat(n, d) == [n |-> n, d |-> d]
RatLess(a, b) == a.n * b.d < b.n * a.d
RatAbs(a) == Rat(Abs(a.n), a.d)

\* Number(x.toFixed(2)) and Number(x.toFixed(3)) in thousandths: the nearest
\* multiple of 0.01 (0.001), a tie going away from zero
RoundDiv(a, b) == (2 * a + b) \div (2 * b)
Sign(n) == IF n < 0 THEN -1 ELSE 1
ToFixed2(x) == Sign(x.n) * 10 * RoundDiv(Abs(x.n), 10 * x.d)
ToFixed3(x) == Sign(x.n) * RoundDiv(Abs(x.n), x.d)

IsFinite(x) == x # <<>>

(***************************************************************************)
(* Stable sort.  cmp[<<i, j>>] is the comparator's value on items i and j  *)
(* (negative: i first); the result lists the item indexes in sorted order. *)
(* Array.prototype.sort is stable, so with a consistent comparator any     *)
(* stable algorithm gives the same order; this one is insertion sort.      *)
(***************************************************************************)
RECURSIVE InsertSorted(_, _, _)
InsertSorted(order, i, cmp) ==
  IF order # <<>> /\ cmp[<<order[Len(order)], i>>] > 0
  THEN InsertSorted(SubSeq(order, 1, Len(order) - 1), i, cmp) \o <<order[Len(order)]>>
  ELSE order \o <<i>>

RECURSIVE SortOrder(_, _, _)
SortOrder(n, i, cmp) ==
  IF i = 0 THEN <<>> ELSE InsertSorted(SortOrder(n, i - 1, cmp), i, cmp)

SortBy(items, cmp) ==
  LET order == SortOrder(Len(items), Len(items), cmp)
  IN [k \in 1..Len(items) |-> items[order[k]]]

(***************************************************************************)
(* Prop-line imports: POST /api/import/sgo-props, /api/import/hardrock-props*)
(* A request row carries the canonical field names (the alternatives the   *)
(* handler probes with ?? all feed the same stored fields).                *)
(***************************************************************************)
PropRow(date, playerId, playerName, statType, team, line) ==
  [date |-> date, playerId |-> playerId, playerName |-> playerName,
   statType |-> statType, team |-> team, line |-> line]

\* dedupe key of a stored prop: date + playerId(or name) + statType + line
StoredPropKey(p) ==
  <<p.date,
    IF p.playerId # <<>> THEN p.playerId ELSE ToLower(p.playerName),
    ToLower(p.statType),
    p.line>>

\* dedupe key of an incoming row (the name is lower-cased but not trimmed)
IncomingPropKey(r) ==
  <<r.date,
    IF r.playerId # <<>> THEN r.playerId ELSE ToLower(r.playerName),
    ToLower(r.statType),
    ToNumber(OrNull(r.line))>>

StoredPropOf(r, srcTag) ==
  [date |-> r.date,
   playerId |-> r.playerId,
   playerName |-> Trim(r.playerName),
   statType |-> Trim(r.statType),
   team |-> Trim(r.team),
   line |-> ToNumber(OrNull(r.line)),
   source |-> srcTag]

\* the loop over the request's rows: skip a row without date or with a seen key
RECURSIVE ImportPropRows(_, _, _, _, _)
ImportPropRows(rows, i, list, seen, srcTag) ==
  IF i > Len(rows) THEN list
  ELSE IF rows[i].date = <<>> \/ IncomingPropKey(rows[i]) \in seen
       THEN ImportPropRows(rows, i + 1, list, seen, srcTag)
       ELSE ImportPropRows(rows, i + 1, Append(list, StoredPropOf(rows[i], srcTag)),
                           seen \cup {IncomingPropKey(rows[i])}, srcTag)

ImportProps(list, rows, srcTag) ==
  ImportPropRows(rows, 1, list, {StoredPropKey(list[j]) : j \in 1..Len(list)}, srcTag)

ImportPropsResponse(rows, before, after) ==
  IF Len(rows) = 0
  THEN [status |-> 400, ok |-> FALSE]
  ELSE [status |-> 200, ok |-> TRUE, received |-> Len(rows),
        added |-> Len(after) - Len(before), total |-> Len(after)]

ImportSgoProps(rows) ==
  LET after == IF Len(rows) = 0 THEN sgoPropLines
               ELSE ImportProps(sgoPropLines, rows, "sgo")
  IN /\ Len(after) <= MaxProps
     /\ sgoPropLines' = after
     /\ req' = [op |-> "import-sgo-props", received |-> Len(rows)]
     /\ res' = ImportPropsResponse(rows, sgoPropLines, after)
     /\ UNCHANGED <<nbaPlayerGameLogs, hardrockPropLines, propsArchive, cache,
                    inflight>>

ImportHardrockProps(rows) ==
  LET after == IF Len(rows) = 0 THEN hardrockPropLines
               ELSE ImportProps(hardrockPropLines, rows, "hardrock")
  IN /\ Len(after) <= MaxProps
     /\ hardrockPropLines' = after
     /\ req' = [op |-> "import-hardrock-props", received |-> Len(rows)]
     /\ res' = ImportPropsResponse(rows, hardrockPropLines, after)
     /\ UNCHANGED <<nbaPlayerGameLogs, sgoPropLines, propsArchive, cache,
                    inflight>>

(***************************************************************************)
(* POST /api/props/archive-date                                            *)
(***************************************************************************)
SelectDate(list, date) == SelectSeq(list, LAMBDA p : p.date = date)

ArchiveEntry(sgo, hardrock) ==
  [sgoCount |-> Len(sgo), hardrockCount |-> Len(hardrock),
   sgo |-> sgo, hardrock |-> hardrock]

\* a put that keeps the earlier snapshot's props in front of the new ones
ArchivePut_Merge(archive, date, entry) ==
  [d \in DOMAIN archive \cup {date} |->
     IF d # date THEN archive[d]
     ELSE IF date \in DOMAIN archive
     THEN [sgoCount |-> entry.sgoCount, hardrockCount |-> entry.hardrockCount,
           sgo |-> archive[date].sgo \o entry.sgo,
           hardrock |-> archive[date].hardrock \o entry.hardrock]
     ELSE entry]

\* a put that starts the archive afresh
ArchivePut_Fresh(archive, date, entry) == [d \in {date} |-> entry]

\* db.propsArchive[date] = entry
ArchivePut(archive, date, entry) ==
  [d \in DOMAIN archive \cup {date} |-> IF d = date THEN entry ELSE archive[d]]

ArchiveDate(date) ==
  /\ req' = [op |-> "archive-date", date |-> date]
  /\ IF date = <<>> \/ ~isValidISODate(date)
     THEN /\ res' = [status |-> 400, ok |-> FALSE]
          /\ UNCHANGED propsArchive
     ELSE LET sgo == SelectDate(sgoPropLines, date)
              hardrock == SelectDate(hardrockPropLines, date)
          IN /\ propsArchive' = ArchivePut(propsArchive, date, ArchiveEntry(sgo, hardrock))
             /\ res' = [status |-> 200, ok |-> TRUE, date |-> date,
                        counts |-> [sgo |-> Len(sgo), hardrock |-> Len(hardrock)]]
  /\ UNCHANGED <<nbaPlayerGameLogs, sgoPropLines, hardrockPropLines, cache,
                 inflight>>

(***************************************************************************)
(* POST /api/dev/simulate-line-move                                        *)
(***************************************************************************)
\* index of the last prop of the date and stat with a numeric line, 0 if none
SimulateTarget_Last(list, date, statType) ==
  LET hits == {i \in 1..Len(list) :
                 /\ list[i].date = date
                 /\ ToLower(list[i].statType) = statType
                 /\ IsFinite(list[i].line)}
  IN IF hits = {} THEN 0 ELSE CHOOSE i \in hits : \A j \in hits : i >= j

\* index of the first prop of the date and stat with a numeric line, 0 if none
SimulateTarget(list, date, statType) ==
  LET hits == {i \in 1..Len(list) :
                 /\ list[i].date = date
                 /\ ToLower(list[i].statType) = statType
                 /\ IsFinite(list[i].line)}
  IN IF hits = {} THEN 0 ELSE CHOOSE i \in hits : \A j \in hits : i <= j

\* Number((line + delta).toFixed(3)), delta in ten-thousandths
SimulateNewLine(line, delta) == ToFixed3(Rat(10 * line + delta, 10))

\* p.line = Number((line + delta).toFixed(3))
SimulateApply(list, i, delta) ==
  [list EXCEPT ![i].line = <<SimulateNewLine(list[i].line[1], delta)>>]

SimulateLineMove(dateRaw, sourceRaw, statTypeRaw, deltaRaw) ==
  LET date == Trim(dateRaw)
      source == ToLower(IF sourceRaw = <<>> THEN S_sgo ELSE sourceRaw)
      statType == ToLower(IF statTypeRaw = <<>> THEN S_points ELSE statTypeRaw)
      \* Number(body.delta ?? 1), in ten-thousandths
      delta == IF deltaRaw.k \in {"null", "absent"} THEN <<10000>>
               ELSE IF deltaRaw.k = "fine" THEN <<deltaRaw.v>>
               ELSE IF IsFinite(ToNumber(deltaRaw)) THEN <<10 * ToNumber(deltaRaw)[1]>>
               ELSE <<>>
      list == IF source = S_sgo THEN sgoPropLines ELSE hardrockPropLines
      i == SimulateTarget(list, date, statType)
      bad == \/ date = <<>> \/ ~isValidISODate(date)
             \/ source \notin {S_sgo, S_hardrock}
             \/ ~IsFinite(delta) \/ delta = <<0>>
  IN /\ req' = [op |-> "simulate-line-move", date |-> date, source |-> sourceRaw,
                statType |-> statTypeRaw, delta |-> deltaRaw]
     /\ IF bad
        THEN /\ res' = [status |-> 400, ok |-> FALSE]
             /\ UNCHANGED <<sgoPropLines, hardrockPropLines>>
        ELSE IF i = 0
        THEN /\ res' = [status |-> 404, ok |-> FALSE]
             /\ UNCHANGED <<sgoPropLines, hardrockPropLines>>
        ELSE /\ SimulateNewLine(list[i].line[1], delta[1]) <= MaxLineUnits * 1000
             /\ res' = [status |-> 200, ok |-> TRUE,
                        updated |-> [date |-> date, source |-> source,
                                     playerId |-> list[i].playerId,
                                     playerName |-> list[i].playerName,
                                     statType |-> list[i].statType,
                                     oldLine |-> list[i].line[1],
                                     newLine |-> SimulateNewLine(list[i].line[1], delta[1]),
                                     delta |-> delta[1]]]
             /\ IF source = S_sgo
                THEN /\ sgoPropLines' = SimulateApply(list, i, delta[1])
                     /\ UNCHANGED hardrockPropLines
                ELSE /\ hardrockPropLines' = SimulateApply(list, i, delta[1])
                     /\ UNCHANGED sgoPropLines
     /\ UNCHANGED <<nbaPlayerGameLogs, propsArchive, cache,
                    inflight>>

(***************************************************************************)
(* GET /api/props/line-moves                                               *)
(***************************************************************************)
normStat(s) == Trim(ToLower(s))
normName(s) == Trim(CollapseWs(ToLower(s)))

\* `${pid || name}__${stat}`: the key ignores the line
keyOf(p) ==
  <<IF p.playerId # <<>> THEN p.playerId ELSE normName(p.playerName),
    normStat(p.statType)>>

\* arcMap.set(k, v)
MapSet(m, k, v) == [x \in DOMAIN m \cup {k} |-> IF x = k THEN v ELSE m[x]]

\* one loop over an archived list: entries without a numeric line are not
\* indexed, a later entry replaces an earlier one under the same key
RECURSIVE ArcMapAdd(_, _, _, _)
ArcMapAdd(m, list, i, srcTag) ==
  IF i > Len(list) THEN m
  ELSE IF ~IsFinite(list[i].line) THEN ArcMapAdd(m, list, i + 1, srcTag)
  ELSE ArcMapAdd(MapSet(m, <<srcTag>> \o keyOf(list[i]),
                        [list[i] EXCEPT !.source = srcTag]),
                 list, i + 1, srcTag)

ArcMap(archive, includeSGO, includeHR) ==
  LET m1 == IF includeSGO THEN ArcMapAdd(<<>>, archive.sgo, 1, "sgo") ELSE <<>>
  IN IF includeHR THEN ArcMapAdd(m1, archive.hardrock, 1, "hardrock") ELSE m1

\* a differ that subtracts the wrong way round
MoveOf_Swapped(date, srcTag, p, open) ==
  [date |-> date, source |-> srcTag, playerId |-> p.playerId,
   playerName |-> p.playerName, team |-> p.team, statType |-> p.statType,
   openLine |-> open.line[1], curLine |-> p.line[1],
   delta |-> open.line[1] - p.line[1],
   absDelta |-> Abs(p.line[1] - open.line[1])]

MoveOf(date, srcTag, p, open) ==
  [date |-> date,
   source |-> srcTag,
   playerId |-> IF p.playerId # <<>> THEN p.playerId ELSE open.playerId,
   playerName |-> IF p.playerName # <<>> THEN p.playerName
                  ELSE IF open.playerName # <<>> THEN open.playerName ELSE S_unknown,
   team |-> IF p.team # <<>> THEN p.team ELSE open.team,
   statType |-> IF p.statType # <<>> THEN p.statType ELSE open.statType,
   openLine |-> open.line[1],
   curLine |-> p.line[1],
   delta |-> p.line[1] - open.line[1],
   absDelta |-> Abs(p.line[1] - open.line[1])]

\* compareCurrent(list, srcTag): the moves it pushes, in list order
RECURSIVE compareCurrent(_, _, _, _, _)
compareCurrent(list, i, srcTag, arcMap, date) ==
  IF i > Len(list) THEN <<>>
  ELSE LET k == <<srcTag>> \o keyOf(list[i])
           rest == compareCurrent(list, i + 1, srcTag, arcMap, date)
       IN IF k \notin DOMAIN arcMap THEN rest
          ELSE IF ~IsFinite(list[i].line) THEN rest
          ELSE IF list[i].line = arcMap[k].line THEN rest
          ELSE <<MoveOf(date, srcTag, list[i], arcMap[k])>> \o rest

\* a sort with the comparator's operands exchanged
SortMoves_Ascending(moves) ==
  SortBy(moves, [ij \in (1..Len(moves)) \X (1..Len(moves)) |->
                   moves[ij[1]].absDelta - moves[ij[2]].absDelta])

\* moves.sort((a, b) => b.absDelta - a.absDelta)
SortMoves(moves) ==
  SortBy(moves, [ij \in (1..Len(moves)) \X (1..Len(moves)) |->
                   moves[ij[2]].absDelta - moves[ij[1]].absDelta])

\* Math.max(1, Number(req.query.limit || 50)); an absent limit is <<>>
LineMovesLimit(limitRaw) == Max(1, IF limitRaw = <<>> THEN 50 ELSE limitRaw[1])

\* all moves of the request, sorted, before the slice
AllMoves(date, source, archive, sgo, hr) ==
  LET includeSGO == source \in {S_all, S_sgo}
      includeHR == source \in {S_all, S_hardrock}
      arcMap == ArcMap(archive, includeSGO, includeHR)
      curSGO == SelectDate(sgo, date)
      curHR == SelectDate(hr, date)
  IN SortMoves((IF includeSGO THEN compareCurrent(curSGO, 1, "sgo", arcMap, date) ELSE <<>>)
               \o
               (IF includeHR THEN compareCurrent(curHR, 1, "hardrock", arcMap, date) ELSE <<>>))

\* a handler that treats the missing archive as a failed request
NoArchiveResponse_AsError(date) ==
  [status |-> 404, ok |-> FALSE, date |-> date, exists |-> FALSE, moves |-> <<>>]

\* the answer when propsArchive has no entry for the date
NoArchiveResponse(date) ==
  [status |-> 200, ok |-> TRUE, date |-> date, exists |-> FALSE, moves |-> <<>>]

LineMovesResponse(dateRaw, sourceRaw, limitRaw, archiveAll, sgo, hr) ==
  LET date == Trim(dateRaw)
      source == ToLower(IF sourceRaw = <<>> THEN S_all ELSE sourceRaw)
      limit == LineMovesLimit(limitRaw)
  IN IF date = <<>> \/ ~isValidISODate(date)
     THEN [status |-> 400, ok |-> FALSE]
     ELSE IF date \notin DOMAIN archiveAll
     THEN NoArchiveResponse(date)
     ELSE LET archive == archiveAll[date]
              moves == AllMoves(date, source, archive, sgo, hr)
          IN [status |-> 200, ok |-> TRUE, date |-> date, exists |-> TRUE,
              source |-> source,
              counts |-> [archiveSGO |-> Len(archive.sgo),
                          archiveHardrock |-> Len(archive.hardrock),
                          currentSGO |-> Len(SelectDate(sgo, date)),
                          currentHardrock |-> Len(SelectDate(hr, date)),
                          moves |-> Len(moves)],
              moves |-> SubSeq(moves, 1, Min(limit, Len(moves)))]

LineMoves(dateRaw, sourceRaw, limitRaw) ==
  /\ req' = [op |-> "line-moves", date |-> dateRaw, source |-> sourceRaw,
             limit |-> limitRaw]
  /\ res' = LineMovesResponse(dateRaw, sourceRaw, limitRaw, propsArchive,
                              sgoPropLines, hardrockPropLines)
  /\ UNCHANGED <<nbaPlayerGameLogs, sgoPropLines, hardrockPropLines, propsArchive, cache,
                 inflight>>

(***************************************************************************)
(* POST /api/import/nba-game-logs                                          *)
(***************************************************************************)
LogRow(playerId, playerName, gameDate, pts, reb, ast, fg3m) ==
  [playerId |-> playerId, playerName |-> playerName, gameDate |-> gameDate,
   pts |-> pts, reb |-> reb, ast |-> ast, fg3m |-> fg3m]

\* dedup key: playerId + gameDate
LogKey(g) == <<Str(g.playerId), Str(g.gameDate)>>

StoredLogOf(r) ==
  [playerId |-> Str(r.playerId),
   playerName |-> Trim(r.playerName),
   gameDate |-> Str(r.gameDate),
   pts |-> ToNumber(r.pts),
   reb |-> ToNumber(r.reb),
   ast |-> ToNumber(r.ast),
   fg3m |-> ToNumber(r.fg3m)]

RECURSIVE ImportLogRows(_, _, _, _)
ImportLogRows(rows, i, logs, seen) ==
  IF i > Len(rows) THEN logs
  ELSE IF \/ rows[i].playerId = <<>> \/ rows[i].gameDate = <<>>
          \/ LogKey(rows[i]) \in seen
       THEN ImportLogRows(rows, i + 1, logs, seen)
       ELSE ImportLogRows(rows, i + 1, Append(logs, StoredLogOf(rows[i])),
                          seen \cup {LogKey(rows[i])})

ImportLogs(logs, rows) ==
  ImportLogRows(rows, 1, logs, {LogKey(logs[j]) : j \in 1..Len(logs)})

ImportGameLogs(rows) ==
  LET after == IF Len(rows) = 0 THEN nbaPlayerGameLogs
               ELSE ImportLogs(nbaPlayerGameLogs, rows)
  IN /\ nbaPlayerGameLogs' = after
     /\ req' = [op |-> "import-nba-game-logs", received |-> Len(rows)]
     /\ res' = IF Len(rows) = 0
               THEN [status |-> 400, ok |-> FALSE]
               ELSE [status |-> 200, ok |-> TRUE, received |-> Len(rows),
                     added |-> Len(after) - Len(nbaPlayerGameLogs),
                     total |-> Len(after)]
     /\ UNCHANGED <<sgoPropLines, hardrockPropLines, propsArchive, cache,
                    inflight>>

(***************************************************************************)
(* Domain logic: stat labels, stat values, the rolling projection, tiers   *)
(***************************************************************************)
S_point == <<112, 111, 105, 110, 116>>
S_pts == <<112, 116, 115>>
S_PTS == <<80, 84, 83>>
S_rebound == <<114, 101, 98, 111, 117, 110, 100>>
S_reb == <<114, 101, 98>>
S_rebs == <<114, 101, 98, 115>>
S_assist == <<97, 115, 115, 105, 115, 116>>
S_assists == <<97, 115, 115, 105, 115, 116, 115>>
S_ast == <<97, 115, 116>>
S_asts == <<97, 115, 116, 115>>
S_3 == <<51>>
S_made == <<109, 97, 100, 101>>
S_pm == <<112, 109>>
S_three == <<116, 104, 114, 101, 101>>
S_threes == <<116, 104, 114, 101, 101, 115>>
S_3pm == <<51, 112, 109>>
S_3s == <<51, 115>>
S_fg3m == <<102, 103, 51, 109>>
S_flat == <<102, 108, 97, 116>>
S_weighted == <<119, 101, 105, 103, 104, 116, 101, 100>>

\* the canonical tag, or "" for an unrecognised label
normalizeStatType(statType) ==
  LET s == ToLower(statType)
  IN IF Includes(s, S_point) \/ s = S_pts THEN "PTS"
     ELSE IF Includes(s, S_rebound) \/ s = S_reb THEN "REB"
     ELSE IF Includes(s, S_assist) \/ s = S_ast THEN "AST"
     ELSE IF Includes(s, S_3) /\ (Includes(s, S_made) \/ Includes(s, S_pm)
                                    \/ Includes(s, S_three)) THEN "3PM"
     ELSE IF s = S_3pm THEN "3PM"
     ELSE ""

\* a stored log carries pts, reb, ast and fg3m only
getStatFromLog(log, stat) ==
  CASE stat = "PTS" -> log.pts
    [] stat = "REB" -> log.reb
    [] stat = "AST" -> log.ast
    [] stat = "3PM" -> log.fg3m
    [] OTHER -> <<>>

\* a sort that leaves the logs in their stored order
SortLogsForProjection_AsStored(logs) == logs

\* filtered.sort(...): newest first when both dates are ISO dates, else "equal"
SortLogsForProjection(logs) ==
  SortBy(logs, [ij \in (1..Len(logs)) \X (1..Len(logs)) |->
                  IF isValidISODate(logs[ij[1]].gameDate)
                     /\ isValidISODate(logs[ij[2]].gameDate)
                  THEN compareISODate(logs[ij[2]].gameDate, logs[ij[1]].gameDate)
                  ELSE 0])

\* the loop that collects up to gamesN finite values, newest first
RECURSIVE CollectVals(_, _, _, _, _)
CollectVals(sorted, i, stat, gamesN, vals) ==
  IF i > Len(sorted) THEN vals
  ELSE LET v == getStatFromLog(sorted[i], stat)
           vals2 == IF IsFinite(v) THEN Append(vals, v[1]) ELSE vals
       IN IF Len(vals2) >= gamesN THEN vals2
          ELSE CollectVals(sorted, i + 1, stat, gamesN, vals2)

RECURSIVE SumSeq(_)
SumSeq(s) == IF s = <<>> THEN 0 ELSE Head(s) + SumSeq(Tail(s))

\* [ok |-> FALSE] stands for null
rollingProjection(logs, playerKey, stat, gamesN) ==
  LET statNorm == normalizeStatType(stat)
      filtered ==
        SelectSeq(logs, LAMBDA lg :
          IF playerKey.playerId # <<>> /\ lg.playerId # <<>>
             /\ lg.playerId = playerKey.playerId THEN TRUE
          ELSE IF playerKey.playerId = <<>> /\ playerKey.playerName # <<>>
                  /\ Trim(lg.playerName) # <<>>
               THEN ToLower(Trim(lg.playerName)) = ToLower(playerKey.playerName)
          ELSE FALSE)
      vals == CollectVals(SortLogsForProjection(filtered), 1, statNorm, gamesN, <<>>)
  IN IF statNorm = "" THEN [ok |-> FALSE]
     ELSE IF Len(vals) = 0 THEN [ok |-> FALSE]
     ELSE [ok |-> TRUE, stat |-> statNorm, gamesUsed |-> Len(vals),
           projection |-> Rat(SumSeq(vals), Len(vals))]

\* a tier rule that loses tier A
tierForAbsEdge_NoA(absEdge) ==
  IF ~RatLess(absEdge, Rat(1500, 1)) THEN "B" ELSE "C"

\* a tier rule with the names of A and B exchanged
tierForAbsEdge_Swapped(absEdge) ==
  IF ~RatLess(absEdge, Rat(3000, 1)) THEN "B"
  ELSE IF ~RatLess(absEdge, Rat(1500, 1)) THEN "A"
  ELSE "C"

tierForAbsEdge(absEdge) ==
  IF ~RatLess(absEdge, Rat(3000, 1)) THEN "A"
  ELSE IF ~RatLess(absEdge, Rat(1500, 1)) THEN "B"
  ELSE "C"

extractPropKey(p) ==
  [playerId |-> p.playerId, playerName |-> Trim(p.playerName),
   statType |-> Trim(p.statType), team |-> Trim(p.team)]

(***************************************************************************)
(* Leaders                                                                 *)
(***************************************************************************)
\* a key that keeps the name as typed
LeaderKey_NameAsTyped(lg) ==
  IF lg.playerId # <<>> THEN <<"id", lg.playerId>>
  ELSE <<"name", Trim(lg.playerName)>>

LeaderKey(lg) ==
  IF lg.playerId # <<>> THEN <<"id", lg.playerId>>
  ELSE <<"name", ToLower(Trim(lg.playerName))>>

StatOrZero(lg, stat) ==
  IF IsFinite(getStatFromLog(lg, stat)) THEN getStatFromLog(lg, stat)[1] ELSE 0

\* the loop over the logs: one object per player key, in first-seen order
\* (there are never more objects than logs)
RECURSIVE LeadersLoop(_, _, _)
LeadersLoop(logs, i, objs) ==
  IF i > Len(logs) \/ Len(objs) > Len(logs) THEN objs
  ELSE
    LET lg == logs[i]
        pname == Trim(lg.playerName)
        key == LeaderKey(lg)
        known == {k \in 1..Len(objs) : objs[k].key = key}
        objs1 == IF known = {}
                 THEN Append(objs, [key |-> key, playerId |-> lg.playerId,
                                    playerName |-> pname, gp |-> 0,
                                    PTS |-> 0, REB |-> 0, AST |-> 0, TPM |-> 0])
                 ELSE objs
        k == CHOOSE k \in 1..Len(objs1) : objs1[k].key = key
        hasAny == \E st \in {"PTS", "REB", "AST", "3PM"} : IsFinite(getStatFromLog(lg, st))
        obj == [objs1[k] EXCEPT
                  !.gp = @ + 1,
                  !.PTS = @ + StatOrZero(lg, "PTS"),
                  !.REB = @ + StatOrZero(lg, "REB"),
                  !.AST = @ + StatOrZero(lg, "AST"),
                  !.TPM = @ + StatOrZero(lg, "3PM"),
                  !.playerName = IF @ = <<>> /\ pname # <<>> THEN pname ELSE @]
    IN IF lg.playerId = <<>> /\ pname = <<>> THEN LeadersLoop(logs, i + 1, objs)
       ELSE IF ~hasAny THEN LeadersLoop(logs, i + 1, objs1)
       ELSE LeadersLoop(logs, i + 1, [objs1 EXCEPT ![k] = obj])

\* the first 25 rows in the order of the players
top25_Unsorted(players, stat) ==
  LET rows == [i \in 1..Len(players) |->
                 [playerId |-> players[i].playerId,
                  playerName |-> players[i].playerName,
                  gp |-> players[i].gp,
                  perGame |-> ToFixed2(Rat(CASE stat = "PTS" -> players[i].PTS
                                             [] stat = "REB" -> players[i].REB
                                             [] stat = "AST" -> players[i].AST
                                             [] OTHER -> players[i].TPM,
                                           players[i].gp))]]
  IN SubSeq(rows, 1, Min(25, Len(rows)))

top25(players, stat) ==
  LET rows == [i \in 1..Len(players) |->
                 [playerId |-> players[i].playerId,
                  playerName |-> players[i].playerName,
                  gp |-> players[i].gp,
                  perGame |-> ToFixed2(Rat(CASE stat = "PTS" -> players[i].PTS
                                             [] stat = "REB" -> players[i].REB
                                             [] stat = "AST" -> players[i].AST
                                             [] OTHER -> players[i].TPM,
                                           players[i].gp))]]
      sorted == SortBy(rows, [ij \in (1..Len(rows)) \X (1..Len(rows)) |->
                                rows[ij[2]].perGame - rows[ij[1]].perGame])
  IN SubSeq(sorted, 1, Min(25, Len(sorted)))

computeLeadersFromLogs(logs) ==
  LET players == SelectSeq(LeadersLoop(logs, 1, <<>>), LAMBDA p : p.gp > 0)
  IN [points |-> top25(players, "PTS"),
      rebounds |-> top25(players, "REB"),
      assists |-> top25(players, "AST"),
      threes |-> top25(players, "3PM")]

\* POST /api/nba/stats/warm
WarmLeaders ==
  /\ cache' = [leaders |-> <<computeLeadersFromLogs(nbaPlayerGameLogs)>>]
  /\ req' = [op |-> "warm"]
  /\ res' = [status |-> 200, ok |-> TRUE]
  /\ UNCHANGED dbVars
  /\ UNCHANGED inflight

\* GET /api/nba/stats/leaders
Leaders ==
  /\ req' = [op |-> "leaders"]
  /\ res' = IF cache.leaders # <<>>
            THEN [status |-> 200, ok |-> TRUE, cached |-> TRUE,
                  leaders |-> cache.leaders[1]]
            ELSE [status |-> 200, ok |-> TRUE, cached |-> FALSE,
                  leaders |-> computeLeadersFromLogs(nbaPlayerGameLogs)]
  /\ UNCHANGED <<nbaPlayerGameLogs, sgoPropLines, hardrockPropLines, propsArchive, cache,
                 inflight>>

(***************************************************************************)
(* The active date                                                         *)
(***************************************************************************)
extractPropDate(p) == p.date

\* the smallest string of a non-empty set of ISO dates
MinDate(S) == CHOOSE d \in S : \A e \in S : ~StrLess(e, d)
MaxDate(S) == CHOOSE d \in S : \A e \in S : ~StrLess(d, e)

\* uniqSortedDates(arr), as the set it enumerates in increasing order
uniqSortedDates(arr) == {arr[i] : i \in {j \in 1..Len(arr) : isValidISODate(arr[j])}}

\* a rule that always takes the last known date
ResolveActiveDate_Latest(dates, todayET) ==
  IF dates = {} THEN todayET ELSE MaxDate(dates)

\* upcoming[0] if there is an upcoming date, else the last known date, else today
ResolveActiveDate(dates, todayET) ==
  IF dates = {} THEN todayET
  ELSE LET upcoming == {d \in dates : ~StrLess(d, todayET)}
       IN IF upcoming # {} THEN MinDate(upcoming) ELSE MaxDate(dates)

PropDates(sgo, hr) ==
  [i \in 1..Len(sgo) |-> extractPropDate(sgo[i])]
    \o [i \in 1..Len(hr) |-> extractPropDate(hr[i])]

(***************************************************************************)
(* GET /api/nba/edges-today-tiered                                         *)
(***************************************************************************)
\* props of the date from both books, each tagged with its book
PropsForDate(sgo, hr, date) ==
  SelectSeq(sgo, LAMBDA p : extractPropDate(p) = date)
    \o SelectSeq(hr, LAMBDA p : extractPropDate(p) = date)

\* Math.max(1, Math.min(30, Number(req.query.games || 10)))
EdgesGamesN(gamesRaw) == Max(1, Min(30, IF gamesRaw = <<>> THEN 10 ELSE gamesRaw[1]))

\* Number(req.query.minEdge || 0)
EdgesMinEdge(minEdgeRaw) == IF minEdgeRaw = <<>> THEN Rat(0, 1) ELSE minEdgeRaw[1]

\* a filter that never drops a prop
PassesMinEdge_Always(absEdge, minEdge) == TRUE

\* if (absEdge < minEdge) continue
PassesMinEdge(absEdge, minEdge) == ~RatLess(absEdge, minEdge)

\* an entry whose edge is the line minus the projection
EdgeOf_Reversed(p, proj, useDate) ==
  LET edge == Rat(p.line[1] * proj.projection.d - proj.projection.n, proj.projection.d)
      key == extractPropKey(p)
  IN [tier |-> tierForAbsEdge(RatAbs(edge)),
      source |-> p.source,
      date |-> useDate,
      playerId |-> key.playerId,
      playerName |-> key.playerName,
      team |-> key.team,
      stat |-> proj.stat,
      gamesUsed |-> proj.gamesUsed,
      projection |-> ToFixed2(proj.projection),
      line |-> ToFixed2(Rat(p.line[1], 1)),
      edge |-> ToFixed2(edge),
      absEdge |-> ToFixed2(RatAbs(edge)),
      rawProp |-> p]

EdgeOf(p, proj, useDate) ==
  LET edge == Rat(proj.projection.n - p.line[1] * proj.projection.d, proj.projection.d)
      key == extractPropKey(p)
  IN [tier |-> tierForAbsEdge(RatAbs(edge)),
      source |-> p.source,
      date |-> useDate,
      playerId |-> key.playerId,
      playerName |-> key.playerName,
      team |-> key.team,
      stat |-> proj.stat,
      gamesUsed |-> proj.gamesUsed,
      projection |-> ToFixed2(proj.projection),
      line |-> ToFixed2(Rat(p.line[1], 1)),
      edge |-> ToFixed2(edge),
      absEdge |-> ToFixed2(RatAbs(edge)),
      rawProp |-> p]

\* the loop over the props of the date
RECURSIVE EdgesLoop(_, _, _, _, _, _)
EdgesLoop(props, i, logs, gamesN, minEdge, useDate) ==
  IF i > Len(props) THEN <<>>
  ELSE LET p == props[i]
           rest == EdgesLoop(props, i + 1, logs, gamesN, minEdge, useDate)
           proj == rollingProjection(logs, extractPropKey(p), p.statType, gamesN)
       IN IF ~IsFinite(p.line) THEN rest
          ELSE IF ~proj.ok THEN rest
          ELSE IF ~PassesMinEdge(
                     RatAbs(Rat(proj.projection.n - p.line[1] * proj.projection.d,
                                proj.projection.d)), minEdge) THEN rest
          ELSE <<EdgeOf(p, proj, useDate)>> \o rest

TierRank(t) == CASE t = "A" -> 1 [] t = "B" -> 2 [] t = "C" -> 3 [] OTHER -> 9

\* a sort that puts the smallest absEdge first
SortEdges_Ascending(edges) ==
  SortBy(edges, [ij \in (1..Len(edges)) \X (1..Len(edges)) |->
                   IF TierRank(edges[ij[1]].tier) # TierRank(edges[ij[2]].tier)
                   THEN TierRank(edges[ij[1]].tier) - TierRank(edges[ij[2]].tier)
                   ELSE edges[ij[1]].absEdge - edges[ij[2]].absEdge])

\* edges.sort: by tier rank, then by the reported absEdge, largest first
SortEdges(edges) ==
  SortBy(edges, [ij \in (1..Len(edges)) \X (1..Len(edges)) |->
                   IF TierRank(edges[ij[1]].tier) # TierRank(edges[ij[2]].tier)
                   THEN TierRank(edges[ij[1]].tier) - TierRank(edges[ij[2]].tier)
                   ELSE edges[ij[2]].absEdge - edges[ij[1]].absEdge])

EdgesTodayTieredResponse(date, minEdgeRaw, gamesRaw, todayET, logs, sgo, hr) ==
  LET minEdge == EdgesMinEdge(minEdgeRaw)
      gamesN == EdgesGamesN(gamesRaw)
      useDate == IF date # <<>> THEN date
                 ELSE ResolveActiveDate(uniqSortedDates(PropDates(sgo, hr)), todayET)
      edges == SortEdges(EdgesLoop(PropsForDate(sgo, hr, useDate), 1, logs,
                                   gamesN, minEdge, useDate))
      tiered == [A |-> SelectSeq(edges, LAMBDA e : e.tier = "A"),
                 B |-> SelectSeq(edges, LAMBDA e : e.tier = "B"),
                 C |-> SelectSeq(edges, LAMBDA e : e.tier = "C")]
  IN IF date # <<>> /\ ~isValidISODate(date)
     THEN [status |-> 400, ok |-> FALSE]
     ELSE [status |-> 200, ok |-> TRUE, todayET |-> todayET, date |-> useDate,
           minEdge |-> minEdge, gamesN |-> gamesN,
           counts |-> [total |-> Len(edges), A |-> Len(tiered.A),
                       B |-> Len(tiered.B), C |-> Len(tiered.C)],
           tiered |-> tiered]

EdgesTodayTiered(date, minEdgeRaw, gamesRaw, todayET) ==
  /\ req' = [op |-> "edges-today-tiered", date |-> date, minEdge |-> minEdgeRaw,
             games |-> gamesRaw, todayET |-> todayET]
  /\ res' = EdgesTodayTieredResponse(date, minEdgeRaw, gamesRaw, todayET,
                                     nbaPlayerGameLogs, sgoPropLines, hardrockPropLines)
  /\ UNCHANGED <<nbaPlayerGameLogs, sgoPropLines, hardrockPropLines, propsArchive, cache,
                 inflight>>

(***************************************************************************)
(* GET /api/nba/edges-tiered-v2                                            *)
(***************************************************************************)
\* the log field of a stat label, "" when the label is not one of the list
statToField(statType) ==
  LET s == Trim(ToLower(statType))
  IN IF s \in {S_points, S_pts} THEN "pts"
     ELSE IF s \in {S_rebounds, S_rebs, S_reb} THEN "reb"
     ELSE IF s \in {S_assists, S_asts, S_ast} THEN "ast"
     ELSE IF s \in {S_3pm, S_threes, S_3s, S_fg3m} THEN "fg3m"
     ELSE ""

\* Number(g[field] || 0): a missing value counts as 0
FieldOrZero(g, field) ==
  LET v == CASE field = "pts" -> g.pts [] field = "reb" -> g.reb
             [] field = "ast" -> g.ast [] OTHER -> g.fg3m
  IN IF IsFinite(v) THEN v[1] ELSE 0

\* byPlayer.get(playerId): the player's logs, newest first
LogsOfPlayer(logs, playerId) ==
  LET arr == SelectSeq(logs, LAMBDA g : g.playerId # <<>> /\ g.gameDate # <<>>
                                        /\ g.playerId = playerId)
  IN SortBy(arr, [ij \in (1..Len(arr)) \X (1..Len(arr)) |->
                    compareISODate(arr[ij[2]].gameDate, arr[ij[1]].gameDate)])

flatAvg(arr, field, gamesN) ==
  LET slice == SubSeq(arr, 1, Min(gamesN, Len(arr)))
  IN [gp |-> Len(slice),
      value |-> Rat(SumSeq([i \in 1..Len(slice) |-> FieldOrZero(slice[i], field)]),
                    Len(slice))]

\* weight gamesN - i for the i-th newest game, i counted from 0
weightedAvg(arr, field, gamesN) ==
  LET slice == SubSeq(arr, 1, Min(gamesN, Len(arr)))
  IN [gp |-> Len(slice),
      value |-> Rat(SumSeq([i \in 1..Len(slice) |->
                              (gamesN - (i - 1)) * FieldOrZero(slice[i], field)]),
                    SumSeq([i \in 1..Len(slice) |-> gamesN - (i - 1)]))]

\* Math.max(1, Number(req.query.games || 10))
V2GamesN(gamesRaw) == Max(1, IF gamesRaw = <<>> THEN 10 ELSE gamesRaw[1])

\* Math.max(0, Number(req.query.minEdge || 0))
V2MinEdge(minEdgeRaw) ==
  IF minEdgeRaw = <<>> \/ minEdgeRaw[1].n < 0 THEN Rat(0, 1) ELSE minEdgeRaw[1]

V2TierOf(absEdge) ==
  IF ~RatLess(absEdge, Rat(3000, 1)) THEN "A"
  ELSE IF ~RatLess(absEdge, Rat(2000, 1)) THEN "B"
  ELSE "C"

V2ItemOf(p, srcTag, date, arr, avg) ==
  LET edge == Rat(avg.value.n - p.line[1] * avg.value.d, avg.value.d)
  IN [date |-> date,
      source |-> srcTag,
      playerId |-> p.playerId,
      playerName |-> IF Trim(p.playerName) # <<>> THEN Trim(p.playerName)
                     ELSE IF arr[1].playerName # <<>> THEN arr[1].playerName
                     ELSE S_unknown,
      team |-> p.team,
      statType |-> p.statType,
      line |-> p.line[1],
      proj |-> ToFixed3(avg.value),
      edge |-> ToFixed3(edge),
      absEdge |-> ToFixed3(RatAbs(edge)),
      gp |-> avg.gp,
      tier |-> V2TierOf(RatAbs(edge))]

\* the loop over the props of the date; each item carries the tier list it
\* is pushed to
RECURSIVE V2Loop(_, _, _, _, _, _, _)
V2Loop(props, i, logs, gamesN, minEdge, mode, date) ==
  IF i > Len(props) THEN <<>>
  ELSE LET p == props[i]
           rest == V2Loop(props, i + 1, logs, gamesN, minEdge, mode, date)
           field == statToField(p.statType)
           arr == LogsOfPlayer(logs, p.playerId)
           avg == IF mode = S_flat THEN flatAvg(arr, field, gamesN)
                  ELSE weightedAvg(arr, field, gamesN)
       IN IF field = "" THEN rest
          ELSE IF p.playerId = <<>> \/ Len(arr) = 0 THEN rest
          ELSE IF ~IsFinite(p.line) THEN rest
          ELSE IF RatLess(RatAbs(Rat(avg.value.n - p.line[1] * avg.value.d,
                                     avg.value.d)), minEdge) THEN rest
          ELSE <<V2ItemOf(p, p.source, date, arr, avg)>> \o rest

\* tiers[k].sort((a, b) => b.absEdge - a.absEdge)
V2SortTier(items) ==
  SortBy(items, [ij \in (1..Len(items)) \X (1..Len(items)) |->
                   items[ij[2]].absEdge - items[ij[1]].absEdge])

EdgesTieredV2Response(dateRaw, gamesRaw, minEdgeRaw, modeRaw, todayET, logs, sgo, hr) ==
  LET date == IF Trim(dateRaw) # <<>> THEN Trim(dateRaw) ELSE todayET
      gamesN == V2GamesN(gamesRaw)
      minEdge == V2MinEdge(minEdgeRaw)
      mode == ToLower(IF modeRaw = <<>> THEN S_weighted ELSE modeRaw)
      props == SelectSeq(sgo, LAMBDA p : p.date = date)
                 \o SelectSeq(hr, LAMBDA p : p.date = date)
      items == V2Loop(props, 1, logs, gamesN, minEdge, mode, date)
      tiers == [A |-> V2SortTier(SelectSeq(items, LAMBDA e : e.tier = "A")),
                B |-> V2SortTier(SelectSeq(items, LAMBDA e : e.tier = "B")),
                C |-> V2SortTier(SelectSeq(items, LAMBDA e : e.tier = "C"))]
  IN [status |-> 200, ok |-> TRUE, date |-> date, mode |-> mode,
      gamesUsed |-> gamesN, minEdge |-> minEdge,
      counts |-> [totalPropsForDate |-> Len(props), A |-> Len(tiers.A),
                  B |-> Len(tiers.B), C |-> Len(tiers.C)],
      tiers |-> tiers]

\* a handler that writes the logs back in the order it sorted them
EdgesTieredV2_SortsStored(dateRaw, gamesRaw, minEdgeRaw, modeRaw, todayET) ==
  /\ req' = [op |-> "edges-tiered-v2", date |-> dateRaw, games |-> gamesRaw,
             minEdge |-> minEdgeRaw, mode |-> modeRaw, todayET |-> todayET]
  /\ res' = EdgesTieredV2Response(dateRaw, gamesRaw, minEdgeRaw, modeRaw, todayET,
                                  nbaPlayerGameLogs, sgoPropLines, hardrockPropLines)
  /\ nbaPlayerGameLogs' = SortLogsForProjection(nbaPlayerGameLogs)
  /\ UNCHANGED <<sgoPropLines, hardrockPropLines, propsArchive, cache,
                 inflight>>

EdgesTieredV2(dateRaw, gamesRaw, minEdgeRaw, modeRaw, todayET) ==
  /\ req' = [op |-> "edges-tiered-v2", date |-> dateRaw, games |-> gamesRaw,
             minEdge |-> minEdgeRaw, mode |-> modeRaw, todayET |-> todayET]
  /\ res' = EdgesTieredV2Response(dateRaw, gamesRaw, minEdgeRaw, modeRaw, todayET,
                                  nbaPlayerGameLogs, sgoPropLines, hardrockPropLines)
  /\ UNCHANGED <<nbaPlayerGameLogs, sgoPropLines, hardrockPropLines, propsArchive, cache,
                 inflight>>

(***************************************************************************)
(* GET /api/props/active-date and GET /api/pt/quick-links                  *)
(***************************************************************************)
\* the dates of both prop lists and the keys of the archive
KnownDates(sgo, hr, archive) ==
  {d \in uniqSortedDates(PropDates(sgo, hr)) \cup DOMAIN archive : isValidISODate(d)}

ActiveDate(todayET) ==
  /\ req' = [op |-> "active-date", todayET |-> todayET]
  /\ res' = [status |-> 200, todayET |-> todayET,
             activeDate |-> ResolveActiveDate(
                              KnownDates(sgoPropLines, hardrockPropLines, propsArchive),
                              todayET),
             availableDates |-> KnownDates(sgoPropLines, hardrockPropLines, propsArchive)]
  /\ UNCHANGED <<nbaPlayerGameLogs, sgoPropLines, hardrockPropLines, propsArchive, cache,
                 inflight>>

\* const activeDate = todayET
QuickLinks(todayET) ==
  /\ req' = [op |-> "quick-links", todayET |-> todayET]
  /\ res' = [status |-> 200, todayET |-> todayET, activeDate |-> todayET]
  /\ UNCHANGED <<nbaPlayerGameLogs, sgoPropLines, hardrockPropLines, propsArchive, cache,
                 inflight>>

(***************************************************************************)
(* GET /api/nba/projections and GET /api/nba/projections-weighted          *)
(***************************************************************************)
\* the keys of byPlayer, in the order the loop first meets them
RECURSIVE PlayerIds(_, _, _)
PlayerIds(logs, i, ids) ==
  IF i > Len(logs) THEN ids
  ELSE IF logs[i].playerId = <<>> \/ \E k \in 1..Len(ids) : ids[k] = logs[i].playerId
       THEN PlayerIds(logs, i + 1, ids)
       ELSE PlayerIds(logs, i + 1, Append(ids, logs[i].playerId))

\* byPlayer.get(playerId) of /api/nba/projections, newest first
ProjLogsOfPlayer(logs, playerId) ==
  LET arr == SelectSeq(logs, LAMBDA g : g.playerId # <<>> /\ g.playerId = playerId)
  IN SortBy(arr, [ij \in (1..Len(arr)) \X (1..Len(arr)) |->
                    compareISODate(arr[ij[2]].gameDate, arr[ij[1]].gameDate)])

\* projections.sort((a, b) => b.pts - a.pts)
SortProjections(rows) ==
  SortBy(rows, [ij \in (1..Len(rows)) \X (1..Len(rows)) |->
                  rows[ij[2]].pts.n * rows[ij[1]].pts.d
                    - rows[ij[1]].pts.n * rows[ij[2]].pts.d])

\* Math.max(1, Number(req.query.games || 10))
ProjGamesN(gamesRaw) == Max(1, IF gamesRaw = <<>> THEN 10 ELSE gamesRaw[1])

\* pts += Number(g.pts || 0), ... over the slice
ProjFieldSum(slice, field) ==
  SumSeq([i \in 1..Len(slice) |-> FieldOrZero(slice[i], field)])

\* pts += w * Number(g.pts || 0) with w = gamesN - i, i counted from 0
ProjWeightedFieldSum(slice, field, gamesN) ==
  SumSeq([i \in 1..Len(slice) |-> (gamesN - (i - 1)) * FieldOrZero(slice[i], field)])

ProjectionsResponse(gamesRaw, logs) ==
  LET gamesN == ProjGamesN(gamesRaw)
      ids == PlayerIds(logs, 1, <<>>)
      rows == [k \in 1..Len(ids) |->
                 LET arr == ProjLogsOfPlayer(logs, ids[k])
                     slice == SubSeq(arr, 1, Min(gamesN, Len(arr)))
                 IN [playerId |-> ids[k],
                     playerName |-> slice[1].playerName,
                     gp |-> Len(slice),
                     pts |-> Rat(ProjFieldSum(slice, "pts"), Len(slice)),
                     reb |-> Rat(ProjFieldSum(slice, "reb"), Len(slice)),
                     ast |-> Rat(ProjFieldSum(slice, "ast"), Len(slice)),
                     fg3m |-> Rat(ProjFieldSum(slice, "fg3m"), Len(slice))]]
  IN [status |-> 200, ok |-> TRUE, gamesUsed |-> gamesN, count |-> Len(rows),
      projections |-> SortProjections(rows)]

Projections(gamesRaw) ==
  /\ req' = [op |-> "projections", games |-> gamesRaw]
  /\ res' = ProjectionsResponse(gamesRaw, nbaPlayerGameLogs)
  /\ UNCHANGED <<nbaPlayerGameLogs, sgoPropLines, hardrockPropLines, propsArchive, cache,
                 inflight>>

ProjectionsWeightedResponse(gamesRaw, logs) ==
  LET gamesN == ProjGamesN(gamesRaw)
      ids == PlayerIds(SelectSeq(logs, LAMBDA g : g.gameDate # <<>>), 1, <<>>)
      rows == [k \in 1..Len(ids) |->
                 LET arr == LogsOfPlayer(logs, ids[k])
                     slice == SubSeq(arr, 1, Min(gamesN, Len(arr)))
                 IN [playerId |-> ids[k],
                     playerName |-> slice[1].playerName,
                     gp |-> Len(slice),
                     gamesRequested |-> gamesN,
                     weightSum |-> SumSeq([i \in 1..Len(slice) |-> gamesN - (i - 1)]),
                     pts |-> Rat(ProjWeightedFieldSum(slice, "pts", gamesN),
                                 SumSeq([i \in 1..Len(slice) |-> gamesN - (i - 1)])),
                     reb |-> Rat(ProjWeightedFieldSum(slice, "reb", gamesN),
                                 SumSeq([i \in 1..Len(slice) |-> gamesN - (i - 1)])),
                     ast |-> Rat(ProjWeightedFieldSum(slice, "ast", gamesN),
                                 SumSeq([i \in 1..Len(slice) |-> gamesN - (i - 1)])),
                     fg3m |-> Rat(ProjWeightedFieldSum(slice, "fg3m", gamesN),
                                 SumSeq([i \in 1..Len(slice) |-> gamesN - (i - 1)]))]]
  IN [status |-> 200, ok |-> TRUE, gamesUsed |-> gamesN, count |-> Len(rows),
      projections |-> SortProjections(rows)]

ProjectionsWeighted(gamesRaw) ==
  /\ req' = [op |-> "projections-weighted", games |-> gamesRaw]
  /\ res' = ProjectionsWeightedResponse(gamesRaw, nbaPlayerGameLogs)
  /\ UNCHANGED <<nbaPlayerGameLogs, sgoPropLines, hardrockPropLines, propsArchive, cache,
                 inflight>>

\* a call of rollingProjection(db.nbaPlayerGameLogs, key, stat, gamesN)
RollingProjectionCall(playerKey, stat, gamesN) ==
  /\ req' = [op |-> "rollingProjection", playerKey |-> playerKey, stat |-> stat,
             gamesN |-> gamesN]
  /\ res' = rollingProjection(nbaPlayerGameLogs, playerKey, stat, gamesN)
  /\ UNCHANGED <<nbaPlayerGameLogs, sgoPropLines, hardrockPropLines, propsArchive, cache,
                 inflight>>

(***************************************************************************)
(* Requests of the model                                                   *)
(***************************************************************************)
\* all sequences over S of length 1..n
RECURSIVE SeqsUpTo(_, _)
SeqsUpTo(S, n) ==
  IF n = 0 THEN {<<>>}
  ELSE LET shorter == SeqsUpTo(S, n - 1)
       IN shorter \cup {Append(s, x) : s \in shorter, x \in S}

Batches(S) == SeqsUpTo(S, MaxBatch)

\* Two quotes of the same player and stat on D1 and, at the other book, two
\* quotes of a player known by name only, spelled with different case and
\* blanks, one of them without a numeric line.
SgoRows ==
  {PropRow(D1, P1, <<>>, S_points, T_LAL, NumV(24000)),
   PropRow(D1, P1, <<>>, S_Points, <<>>, NumV(25000))}

HardrockRows ==
  {PropRow(D1, <<>>, N_AlSmith, S_points, <<>>, NumV(24500)),
   PropRow(D1, <<>>, N_alsmith, S_points, <<>>, TextV)}

\* date, source and limit of the line-moves requests
MoveRequests ==
  {<<D1, <<>>, <<>>>>, <<D1, S_sgo, <<>>>>, <<D1, S_hardrock, <<>>>>,
   <<D1, S_all, <<1>>>>, <<D1, S_SGO, <<0>>>>,
   <<D2, <<>>, <<>>>>, <<BadDate, <<>>, <<>>>>}
ArchiveDates == {D1, BadDate}
ReqDeltas == {NumV(500), NumV(0), FineV(4)}

Init ==
  /\ nbaPlayerGameLogs = <<>>
  /\ sgoPropLines = <<>>
  /\ hardrockPropLines = <<>>
  /\ propsArchive = <<>>
  /\ cache = [leaders |-> <<>>]
  /\ inflight = <<>>
  /\ req = [op |-> "none"]
  /\ res = [status |-> 0]

NextMoves ==
  \/ \E rows \in Batches(SgoRows) : ImportSgoProps(rows)
  \/ \E rows \in Batches(HardrockRows) : ImportHardrockProps(rows)
  \/ \E date \in ArchiveDates : ArchiveDate(date)
  \/ \E source \in {S_sgo, S_hardrock}, delta \in ReqDeltas :
       SimulateLineMove(D1, source, <<>>, delta)
  \/ \E r \in MoveRequests : LineMoves(r[1], r[2], r[3])

SpecMoves == Init /\ [][NextMoves]_vars

\* the requests of the edge specification: two games of player 1 (20 points,
\* then 30), a third row that repeats the key of the second, and lines placed
\* on both sides of the tier thresholds and of the rounding steps
LogRows == {LogRow(P1, N_AlSmith, G1, NumV(20000), NumV(5000), AbsentV, AbsentV),
            LogRow(P1, N_AlSmith, G2, NumV(30000), TextV, AbsentV, AbsentV),
            LogRow(P1, <<>>, G2, NumV(10000), AbsentV, AbsentV, AbsentV)}

EdgeSgoRows == {PropRow(D1, P1, <<>>, S_points, T_LAL, NumV(24000)),
                PropRow(D1, P1, <<>>, S_points, T_LAL, NumV(22004)),
                PropRow(D1, P1, <<>>, S_points, T_LAL, NumV(21996)),
                PropRow(D1, P1, <<>>, S_pts, T_LAL, NumV(23667))}

EdgeHardrockRows == {PropRow(D1, P1, N_AlSmith, S_PTS, <<>>, NumV(20000)),
                     PropRow(D2, <<>>, N_alsmith, S_rebounds, <<>>, NumV(4000))}

\* <<date, minEdge, games, todayET>>
EdgesTodayRequests ==
  {<<D1, <<>>, <<>>, D1>>,
   <<<<>>, <<>>, <<>>, D1>>,
   <<<<>>, <<>>, <<>>, D2>>,
   <<D1, <<Rat(3004, 1)>>, <<>>, D1>>,
   <<D1, <<Rat(5000, 1)>>, <<>>, D1>>,
   <<D1, <<>>, <<1>>, D1>>,
   <<D2, <<>>, <<40>>, D1>>,
   <<BadDate, <<>>, <<>>, D1>>}

\* <<date, games, minEdge, mode, todayET>>
EdgesV2Requests ==
  {<<D1, <<>>, <<>>, <<>>, D1>>,
   <<D1, <<2>>, <<>>, <<>>, D1>>,
   <<D1, <<2>>, <<>>, S_flat, D1>>,
   <<D1, <<4>>, <<Rat(20472, 10)>>, <<>>, D1>>,
   <<D1, <<2>>, <<Rat(5000, 1)>>, S_flat, D1>>,
   <<<<>>, <<2>>, <<>>, <<>>, D1>>,
   <<<<>>, <<>>, <<>>, <<>>, D2>>}

NextEdges ==
  \/ \E rows \in Batches(LogRows) : ImportGameLogs(rows)
  \/ \E rows \in Batches(EdgeSgoRows) : ImportSgoProps(rows)
  \/ \E rows \in Batches(EdgeHardrockRows) : ImportHardrockProps(rows)
  \/ \E r \in EdgesTodayRequests : EdgesTodayTiered(r[1], r[2], r[3], r[4])
  \/ \E r \in EdgesV2Requests : EdgesTieredV2(r[1], r[2], r[3], r[4], r[5])

SpecEdges == Init /\ [][NextEdges]_vars

\* the requests of the whole program: one row per collection, lines that a
\* simulated move can raise twice
AllLogRows == {LogRow(P1, N_AlSmith, G1, NumV(20000), NumV(5000), AbsentV, AbsentV),
               LogRow(P2, N_Bo, G2, TextV, AbsentV, AbsentV, AbsentV)}

AllSgoRows == {PropRow(D1, P1, <<>>, S_points, T_LAL, NumV(24000))}

AllHardrockRows == {PropRow(D2, <<>>, N_AlSmith, S_points, <<>>, NumV(24500))}

Next ==
  \/ \E rows \in Batches(AllLogRows) : ImportGameLogs(rows)
  \/ \E rows \in Batches(AllSgoRows) : ImportSgoProps(rows)
  \/ \E rows \in Batches(AllHardrockRows) : ImportHardrockProps(rows)
  \/ \E date \in {D1, D2, BadDate} : ArchiveDate(date)
  \/ \E r \in {<<D1, S_sgo>>, <<D2, S_hardrock>>, <<D2, S_sgo>>, <<BadDate, S_sgo>>} :
       SimulateLineMove(r[1], r[2], <<>>, NumV(500))
  \/ WarmLeaders
  \/ Leaders
  \/ \E r \in {<<D1, <<>>, <<>>>>, <<D2, S_hardrock, <<>>>>} : LineMoves(r[1], r[2], r[3])
  \/ \E r \in {<<<<>>, <<>>, <<>>, D1>>} : EdgesTodayTiered(r[1], r[2], r[3], r[4])
  \/ \E r \in {<<<<>>, <<2>>, <<>>, <<>>, D1>>} :
       EdgesTieredV2(r[1], r[2], r[3], r[4], r[5])
  \/ Projections(<<>>)
  \/ ProjectionsWeighted(<<2>>)

Spec == Init /\ [][Next]_vars

\* the projection specification: it starts from any database that imports of
\* these rows leave behind and applies the read-side computations to it.  The
\* newest game of player 1 carries no stat at all, the one before lacks the
\* rebounds, and one line sits 0.004 under the flat projection.
ProjLogRows == {LogRow(P1, N_AlSmith, G1, NumV(20000), NumV(5000), AbsentV, AbsentV),
                LogRow(P1, N_AlSmith, G2, NumV(30000), TextV, AbsentV, AbsentV),
                LogRow(P1, N_AlSmith, G3, AbsentV, AbsentV, AbsentV, AbsentV),
                LogRow(P2, N_Bo, G2, NumV(40000), NumV(1000), AbsentV, AbsentV)}

ProjSgoRows == {PropRow(D1, P1, <<>>, S_points, T_LAL, NumV(24996)),
                PropRow(D1, P1, <<>>, S_rebounds, T_LAL, NumV(6000)),
                PropRow(D1, <<>>, N_alsmith, S_pts, <<>>, NumV(22000))}

InitProj ==
  /\ nbaPlayerGameLogs \in {ImportLogs(<<>>, rows) : rows \in SeqsUpTo(ProjLogRows, MaxProjLogs)}
  /\ sgoPropLines \in {ImportProps(<<>>, rows, "sgo") : rows \in Batches(ProjSgoRows)}
  /\ hardrockPropLines = <<>>
  /\ propsArchive = <<>>
  /\ cache = [leaders |-> <<>>]
  /\ inflight = <<>>
  /\ req = [op |-> "none"]
  /\ res = [status |-> 0]

ProjKeys == {[playerId |-> P1, playerName |-> <<>>, statType |-> <<>>, team |-> <<>>],
             [playerId |-> <<>>, playerName |-> Trim(N_alsmith), statType |-> <<>>,
              team |-> <<>>]}

NextProj ==
  \/ \E r \in {<<D1, <<>>, <<>>, D1>>, <<D1, <<>>, <<1>>, D1>>, <<D1, <<>>, <<40>>, D1>>} :
       EdgesTodayTiered(r[1], r[2], r[3], r[4])
  \/ \E r \in {<<D1, <<>>, <<>>, <<>>, D1>>, <<D1, <<2>>, <<>>, <<>>, D1>>,
               <<D1, <<2>>, <<>>, S_flat, D1>>, <<D1, <<40>>, <<>>, <<>>, D1>>} :
       EdgesTieredV2(r[1], r[2], r[3], r[4], r[5])
  \/ \E games \in {<<>>, <<2>>} : Projections(games)
  \/ \E games \in {<<>>, <<2>>, <<3>>} : ProjectionsWeighted(games)
  \/ \E key \in ProjKeys, stat \in {S_points, S_rebounds}, gamesN \in 1..3 :
       RollingProjectionCall(key, stat, gamesN)

SpecProj == InitProj /\ [][NextProj]_vars

\* the date specification: props of two well-formed dates and of a malformed
\* one, an archive entry of a date without props, and requests that leave the
\* date out or send a malformed one
DateLogRows == {LogRow(P1, N_AlSmith, G1, NumV(20000), AbsentV, AbsentV, AbsentV)}

DateSgoRows == {PropRow(D1, P1, <<>>, S_points, T_LAL, NumV(24000)),
                PropRow(BadDate, P1, <<>>, S_points, T_LAL, NumV(23000))}

DateHardrockRows == {PropRow(D2, P1, N_AlSmith, S_PTS, <<>>, NumV(21000))}

Todays == {D1, D2, D3}

NextDates ==
  \/ \E rows \in Batches(DateLogRows) : ImportGameLogs(rows)
  \/ \E rows \in Batches(DateSgoRows) : ImportSgoProps(rows)
  \/ \E rows \in Batches(DateHardrockRows) : ImportHardrockProps(rows)
  \/ \E date \in {D3, BadDate} : ArchiveDate(date)
  \/ \E source \in {S_sgo, S_hardrock} : SimulateLineMove(BadDate, source, <<>>, NumV(500))
  \/ \E todayET \in Todays : ActiveDate(todayET)
  \/ \E todayET \in Todays : QuickLinks(todayET)
  \/ \E date \in {<<>>, BadDate}, todayET \in Todays :
       EdgesTodayTiered(date, <<>>, <<>>, todayET)
  \/ \E date \in {<<>>, BadDate}, todayET \in Todays :
       EdgesTieredV2(date, <<>>, <<>>, <<>>, todayET)
  \/ \E date \in {D3, BadDate} : LineMoves(date, <<>>, <<>>)

SpecDates == Init /\ [][NextDates]_vars

\* the leaders specification: it starts from any game-log collection that an
\* import of these rows leaves behind -- rows with an id, rows whose id is []
\* (stored with an empty id, so grouped by name), a row without any stat, a
\* row without id and name -- or from a collection of ManyPlayers players, and
\* computes the leaderboards.
LeaderLogRows == {LogRow(P1, N_AlSmith, G1, NumV(20000), NumV(5005), AbsentV, AbsentV),
                  LogRow(P1, <<>>, G2, NumV(30000), TextV, AbsentV, NumV(2000)),
                  LogRow(EmptyArray, N_Bo, G1, NumV(10000), AbsentV, NumV(3000), AbsentV),
                  LogRow(EmptyArray, N_BO, G2, NumV(15005), AbsentV, AbsentV, AbsentV),
                  LogRow(P2, N_alsmith, G3, TextV, AbsentV, AbsentV, AbsentV),
                  LogRow(EmptyArray, <<>>, G3, NumV(40000), AbsentV, AbsentV, AbsentV)}

ManyLogRows ==
  [i \in 1..ManyPlayers |->
     LogRow(<<64 + i>>, <<>>, G1, NumV(1000 * (i % 5)), NumV(1000 * i), AbsentV, AbsentV)]

InitLeaders ==
  /\ nbaPlayerGameLogs \in
       {ImportLogs(<<>>, rows) : rows \in SeqsUpTo(LeaderLogRows, MaxProjLogs)}
         \cup {ImportLogs(<<>>, ManyLogRows)}
  /\ sgoPropLines = <<>>
  /\ hardrockPropLines = <<>>
  /\ propsArchive = <<>>
  /\ cache = [leaders |-> <<>>]
  /\ inflight = <<>>
  /\ req = [op |-> "none"]
  /\ res = [status |-> 0]

NextLeaders == WarmLeaders \/ Leaders

SpecLeaders == InitLeaders /\ [][NextLeaders]_vars

\* the stat-label specification: a label is a concatenation of up to
\* MaxTokens of these pieces ("3", "made", "pm", "PM", "three", "Points",
\* "reb", "ast", a blank), and normalizeStatType is applied to it
LabelTokens == {S_3, S_made, S_pm, <<80, 77>>, S_three, S_Points, S_reb, S_ast, <<32>>}

RECURSIVE Concat(_)
Concat(parts) == IF parts = <<>> THEN <<>> ELSE Head(parts) \o Concat(Tail(parts))

Labels == {Concat(parts) : parts \in SeqsUpTo(LabelTokens, MaxTokens)}

InitLabels ==
  /\ nbaPlayerGameLogs = <<>>
  /\ sgoPropLines = <<>>
  /\ hardrockPropLines = <<>>
  /\ propsArchive = <<>>
  /\ cache = [leaders |-> <<>>]
  /\ inflight = <<>>
  /\ req \in {[op |-> "none", statType |-> label] : label \in Labels}
  /\ res = [status |-> 0]

\* a call of normalizeStatType(statType)
NormalizeStatTypeCall ==
  /\ req' = [op |-> "normalizeStatType", statType |-> req.statType]
  /\ res' = [tag |-> normalizeStatType(req.statType)]
  /\ UNCHANGED <<nbaPlayerGameLogs, sgoPropLines, hardrockPropLines, propsArchive, cache,
                 inflight>>

SpecLabels == InitLabels /\ [][NormalizeStatTypeCall]_vars

\* the game-log specification: imports of rows that repeat a (playerId,
\* gameDate) pair, lack the id, or carry [] as id or as date
ImportLogPool == {LogRow(P1, N_AlSmith, G1, NumV(20000), AbsentV, AbsentV, AbsentV),
                  LogRow(P1, N_alsmith, G1, NumV(30000), AbsentV, AbsentV, AbsentV),
                  LogRow(P2, N_Bo, G2, NumV(10000), AbsentV, AbsentV, AbsentV),
                  LogRow(<<>>, N_Bo, G1, NumV(10000), AbsentV, AbsentV, AbsentV),
                  LogRow(EmptyArray, N_Bo, G1, NumV(10000), AbsentV, AbsentV, AbsentV),
                  LogRow(P1, N_AlSmith, EmptyArray, NumV(20000), AbsentV, AbsentV, AbsentV)}

NextLogs == \E rows \in Batches(ImportLogPool) : ImportGameLogs(rows)

SpecLogs == Init /\ [][NextLogs]_vars

(***************************************************************************)
(* Overlapping mutating requests.  A mutating handler is                   *)
(*   const db = await readDB(); <modify db>; await writeDB(db);            *)
(* and Node runs other handlers at each await, so the read and the write   *)
(* of one request are separate steps with other requests' steps between.   *)
(* inflight lists the handlers of the current burst, in the order of their *)
(* readDB: the request, the database its readDB returned, and whether its  *)
(* writeDB has completed.  writeDB is one step here; its two awaits on the *)
(* shared file DB_PATH + ".tmp" only add outcomes to the ones modelled.    *)
(***************************************************************************)
\* handlers of one burst
MaxInFlight == 2

\* the stored database, as readDB returns it
DbNow ==
  [nbaPlayerGameLogs |-> nbaPlayerGameLogs, sgoPropLines |-> sgoPropLines,
   hardrockPropLines |-> hardrockPropLines, propsArchive |-> propsArchive]

\* requests that pass their handler's validation and so reach readDB
OverlapRequests ==
  {[op |-> "import-nba-game-logs", rows |-> <<r>>] :
     r \in {LogRow(P1, N_AlSmith, G1, NumV(20000), AbsentV, AbsentV, AbsentV)}}
  \cup {[op |-> "import-sgo-props", rows |-> <<r>>] : r \in SgoRows}
  \cup {[op |-> "import-hardrock-props", rows |-> <<r>>] :
          r \in {PropRow(D1, <<>>, N_AlSmith, S_points, <<>>, NumV(24500))}}
  \cup {[op |-> "archive-date", date |-> D1]}
  \cup {[op |-> "simulate-line-move", date |-> D1, source |-> S_sgo,
         statType |-> S_points, delta |-> 5000]}

\* the handler's modification of the database object it read
ApplyRequest(r, db) ==
  CASE r.op = "import-nba-game-logs" ->
         [db EXCEPT !.nbaPlayerGameLogs = ImportLogs(@, r.rows)]
    [] r.op = "import-sgo-props" ->
         [db EXCEPT !.sgoPropLines = ImportProps(@, r.rows, "sgo")]
    [] r.op = "import-hardrock-props" ->
         [db EXCEPT !.hardrockPropLines = ImportProps(@, r.rows, "hardrock")]
    [] r.op = "archive-date" ->
         [db EXCEPT !.propsArchive =
            ArchivePut(@, r.date, ArchiveEntry(SelectDate(db.sgoPropLines, r.date),
                                               SelectDate(db.hardrockPropLines, r.date)))]
    [] r.op = "simulate-line-move" ->
         LET list == IF r.source = S_sgo THEN db.sgoPropLines ELSE db.hardrockPropLines
             i == SimulateTarget(list, r.date, r.statType)
         IN IF i = 0 THEN db
            ELSE IF r.source = S_sgo
            THEN [db EXCEPT !.sgoPropLines = SimulateApply(list, i, r.delta)]
            ELSE [db EXCEPT !.hardrockPropLines = SimulateApply(list, i, r.delta)]

\* simulate-line-move answers 404 before writeDB when nothing matched
WritesDb(r, db) ==
  r.op = "simulate-line-move"
    => SimulateTarget(IF r.source = S_sgo THEN db.sgoPropLines ELSE db.hardrockPropLines,
                      r.date, r.statType) # 0

OverlapResponse(r, db) ==
  IF WritesDb(r, db) THEN [status |-> 200, ok |-> TRUE]
  ELSE [status |-> 404, ok |-> FALSE]

\* the bounds of the model, on the database a handler is about to write
WithinBounds(db) ==
  /\ Len(db.sgoPropLines) <= MaxProps
  /\ Len(db.hardrockPropLines) <= MaxProps
  /\ \A i \in 1..Len(db.sgoPropLines) :
       IsFinite(db.sgoPropLines[i].line)
         => db.sgoPropLines[i].line[1] <= MaxLineUnits * 1000

AllDone == \A k \in 1..Len(inflight) : inflight[k].done

\* const db = await readDB(), and the synchronous modification after it
BeginRequest(r) ==
  /\ WithinBounds(ApplyRequest(r, DbNow))
  /\ \/ /\ Len(inflight) < MaxInFlight
        /\ inflight' = Append(inflight, [r |-> r, db |-> DbNow, done |-> FALSE])
     \/ /\ Len(inflight) = MaxInFlight
        /\ AllDone
        /\ inflight' = <<[r |-> r, db |-> DbNow, done |-> FALSE]>>
  /\ UNCHANGED <<dbVars, cache, req, res>>

\* await writeDB(db) and the response; a 404 returns without writing
FinishRequest(k) ==
  LET h == inflight[k]
      after == IF WritesDb(h.r, h.db) THEN ApplyRequest(h.r, h.db) ELSE DbNow
  IN /\ ~h.done
     /\ nbaPlayerGameLogs' = after.nbaPlayerGameLogs
     /\ sgoPropLines' = after.sgoPropLines
     /\ hardrockPropLines' = after.hardrockPropLines
     /\ propsArchive' = after.propsArchive
     /\ inflight' = [inflight EXCEPT ![k].done = TRUE]
     /\ req' = h.r
     /\ res' = OverlapResponse(h.r, h.db)
     /\ UNCHANGED cache

NextOverlap ==
  \/ \E r \in OverlapRequests : BeginRequest(r)
  \/ \E k \in 1..Len(inflight) : FinishRequest(k)

SpecOverlap == Init /\ [][NextOverlap]_vars

(***************************************************************************)
(* The line-move differ: claims C1 - C4                                    *)
(***************************************************************************)
IsMovesAnswer == req.op = "line-moves" /\ res.status = 200 /\ res.exists

LiveOf(srcTag, date) ==
  SelectDate(IF srcTag = "sgo" THEN sgoPropLines ELSE hardrockPropLines, date)

ArchivedOf(srcTag, date) ==
  IF srcTag = "sgo" THEN propsArchive[date].sgo ELSE propsArchive[date].hardrock

\* the sources a request's filter includes
IncludedSources(source) ==
  (IF source \in {S_all, S_sgo} THEN {"sgo"} ELSE {})
    \cup (IF source \in {S_all, S_hardrock} THEN {"hardrock"} ELSE {})

\* positions of the archived entries a live prop can be compared with: same
\* source, same key, numeric line
OpenFor(srcTag, date, p) ==
  {j \in 1..Len(ArchivedOf(srcTag, date)) :
     /\ keyOf(ArchivedOf(srcTag, date)[j]) = keyOf(p)
     /\ IsFinite(ArchivedOf(srcTag, date)[j].line)}

\* the live props that can give a move at all
Comparable(source, date) ==
  UNION {{<<s, i>> : i \in {i \in 1..Len(LiveOf(s, date)) :
                              /\ IsFinite(LiveOf(s, date)[i].line)
                              /\ OpenFor(s, date, LiveOf(s, date)[i]) # {}}}
         : s \in IncludedSources(source)}

\* C1: archiving date D and then asking for the line moves of D (source all),
\* with no request in between, answers exists:true with no move at all.
C1_RoundTripNoMoves ==
  [][(/\ req.op = "archive-date" /\ res.status = 200
      /\ req'.op = "line-moves" /\ Trim(req'.date) = req.date
      /\ ToLower(req'.source) \in {<<>>, S_all})
     => (/\ res'.status = 200 /\ res'.exists
         /\ res'.counts.moves = 0 /\ res'.moves = <<>>)]_vars

\* C2: every returned move pairs a live prop of the date with an archived
\* entry of the same source and key, both with numeric lines, has
\* delta = curLine - openLine # 0 and absDelta = |delta|; only comparable live
\* props give moves; a source filter is respected.
C2_MovesPairLiveWithArchived ==
  IsMovesAnswer =>
    /\ \A k \in 1..Len(res.moves) :
         LET m == res.moves[k]
         IN /\ m.source \in IncludedSources(res.source)
            /\ m.date = res.date
            /\ \E i \in 1..Len(LiveOf(m.source, res.date)) :
                 LET p == LiveOf(m.source, res.date)[i]
                 IN /\ IsFinite(p.line) /\ m.curLine = p.line[1]
                    /\ \E j \in OpenFor(m.source, res.date, p) :
                         m.openLine = ArchivedOf(m.source, res.date)[j].line[1]
            /\ m.delta = m.curLine - m.openLine
            /\ m.absDelta = Abs(m.delta)
            /\ m.delta # 0
    /\ res.counts.moves <= Cardinality(Comparable(res.source, res.date))
    /\ \A s \in {"sgo", "hardrock"} :
         Cardinality({k \in 1..Len(res.moves) : res.moves[k].source = s})
           <= Cardinality({si \in Comparable(res.source, res.date) : si[1] = s})

\* a hardrock-only answer with a move of the name-keyed player, while another
\* live prop of that player has no numeric line and a live sgo prop is left out
C2_Witness ==
  /\ IsMovesAnswer /\ res.source = S_hardrock
  /\ Len(res.moves) = 1 /\ res.moves[1].playerId = <<>>
  /\ \E i \in 1..Len(hardrockPropLines) : ~IsFinite(hardrockPropLines[i].line)
  /\ Len(LiveOf("sgo", res.date)) > 0

\* C3: with no archive entry for a well-formed date the answer is ok:true,
\* exists:false, moves = [] with status 200, and nothing stored changes.
C3_NoArchiveIsNotAnError ==
  [][(/\ req'.op = "line-moves"
      /\ isValidISODate(Trim(req'.date))
      /\ Trim(req'.date) \notin DOMAIN propsArchive)
     => (/\ res'.status = 200 /\ res'.ok /\ ~res'.exists /\ res'.moves = <<>>
         /\ UNCHANGED dbVars)]_vars

\* the date asked for has live props of both books but was never archived
C3_Witness ==
  /\ req.op = "line-moves" /\ res.status = 200 /\ ~res.exists
  /\ res.date \notin DOMAIN propsArchive
  /\ Len(LiveOf("sgo", res.date)) > 0 /\ Len(LiveOf("hardrock", res.date)) > 0

\* the live props that moved: comparable, and the line differs from the line
\* of the last archived entry under the key
Emitted(source, date) ==
  {si \in Comparable(source, date) :
     LET p == LiveOf(si[1], date)[si[2]]
         open == OpenFor(si[1], date, p)
         last == CHOOSE j \in open : \A j2 \in open : j2 <= j
     IN p.line # ArchivedOf(si[1], date)[last].line}

EmittedAbs(si, date) ==
  LET p == LiveOf(si[1], date)[si[2]]
      open == OpenFor(si[1], date, p)
      last == CHOOSE j \in open : \A j2 \in open : j2 <= j
  IN Abs(p.line[1] - ArchivedOf(si[1], date)[last].line[1])

\* C4: the returned moves are sorted non-increasing by absDelta, there are
\* min(limit, total) of them, they are the first ones of the whole sorted
\* list, and counts.moves is the number of moves before the cut.
C4_SortedPrefixAndCount ==
  IsMovesAnswer =>
    LET all == Emitted(res.source, res.date)
    IN /\ \A i, j \in 1..Len(res.moves) :
            i < j => res.moves[i].absDelta >= res.moves[j].absDelta
       /\ res.counts.moves = Cardinality(all)
       /\ Len(res.moves) = Min(LineMovesLimit(req.limit), res.counts.moves)
       /\ \A i \in 1..Len(res.moves) :
            LET v == res.moves[i].absDelta
            IN /\ Cardinality({e \in all : EmittedAbs(e, res.date) > v}) < i
               /\ i <= Cardinality({e \in all : EmittedAbs(e, res.date) >= v})

\* two moves of different size, the smaller one first in the stored list,
\* and a limit of 1 that keeps only the larger
C4_Witness ==
  /\ IsMovesAnswer /\ res.counts.moves = 2 /\ Len(res.moves) = 1
  /\ \E e \in Emitted(res.source, res.date) :
       /\ EmittedAbs(e, res.date) < res.moves[1].absDelta
       /\ \A e2 \in Emitted(res.source, res.date) : e[1] = e2[1] /\ e[2] <= e2[2]

(***************************************************************************)
(* Claims about the archive                                                *)
(***************************************************************************)
\* C5: re-archiving is last-write-wins with no merge: whatever imports,
\* simulated moves and archive calls came before, an archive-date call for D
\* leaves in propsArchive[D].sgo and propsArchive[D].hardrock exactly the
\* props of date D stored in each source at the moment of the call, in their
\* stored order, and nothing else of an earlier snapshot of D.
C5_ReArchiveLastWriteWins ==
  [][(req'.op = "archive-date" /\ res'.status = 200) =>
       LET D == req'.date
       IN /\ D \in DOMAIN propsArchive'
          /\ propsArchive'[D].sgo = SelectSeq(sgoPropLines, LAMBDA p : p.date = D)
          /\ propsArchive'[D].hardrock =
               SelectSeq(hardrockPropLines, LAMBDA p : p.date = D)
          /\ propsArchive'[D].sgoCount = Len(propsArchive'[D].sgo)
          /\ propsArchive'[D].hardrockCount = Len(propsArchive'[D].hardrock)]_vars

\* an archive call has just answered for a date whose sgo line was moved by
\* simulate-line-move since its import, next to a second stored prop: the
\* snapshot holds the moved line and the live list is as long as the snapshot
C5_Witness ==
  /\ req.op = "archive-date" /\ res.status = 200 /\ res.counts.sgo = 2
  /\ \E i \in 1..Len(propsArchive[req.date].sgo) :
       propsArchive[req.date].sgo[i].line = <<24500>>
  /\ propsArchive[req.date].sgo = SelectSeq(sgoPropLines, LAMBDA p : p.date = req.date)

\* C6: a snapshot is immutable between archive calls: no game-log import, prop
\* import, simulate-line-move, leaders warm or read request changes
\* propsArchive, a refused archive-date call changes nothing, and an
\* archive-date call for D leaves the snapshot of every other date as it was.
C6_SnapshotImmutable ==
  [][/\ req'.op # "archive-date" => propsArchive' = propsArchive
     /\ (req'.op = "archive-date" /\ res'.status # 200) => propsArchive' = propsArchive
     /\ req'.op = "archive-date" =>
          \A d \in DOMAIN propsArchive :
            d # req'.date => d \in DOMAIN propsArchive' /\ propsArchive'[d] = propsArchive[d]]_vars

\* simulate-line-move has just changed a live line of an archived date: the
\* snapshot still holds the old line and the live list the new one
C6_Witness ==
  /\ req.op = "simulate-line-move" /\ res.status = 200
  /\ res.updated.date \in DOMAIN propsArchive
  /\ \E i \in 1..Len(propsArchive[res.updated.date].sgo) :
       /\ propsArchive[res.updated.date].sgo[i].line = <<res.updated.oldLine>>
       /\ i <= Len(sgoPropLines)
       /\ sgoPropLines[i].line = <<res.updated.newLine>>
  /\ Cardinality(DOMAIN propsArchive) = 2

(***************************************************************************)
(* Claims about the edge endpoints                                         *)
(***************************************************************************)
IsEdgesV1 == req.op = "edges-today-tiered" /\ res.status = 200
IsEdgesV2 == req.op = "edges-tiered-v2" /\ res.status = 200

V1Entries == res.tiered.A \o res.tiered.B \o res.tiered.C
V2Entries == res.tiers.A \o res.tiers.B \o res.tiers.C

\* the props of the answered date that have a numeric line and a projection
V1Eligible ==
  LET props == PropsForDate(sgoPropLines, hardrockPropLines, res.date)
  IN {i \in 1..Len(props) :
        /\ IsFinite(props[i].line)
        /\ rollingProjection(nbaPlayerGameLogs, extractPropKey(props[i]),
                             props[i].statType, res.gamesN).ok}

V2Eligible ==
  LET props == PropsForDate(sgoPropLines, hardrockPropLines, res.date)
  IN {i \in 1..Len(props) :
        /\ IsFinite(props[i].line)
        /\ statToField(props[i].statType) # ""
        /\ props[i].playerId # <<>>
        /\ Len(LogsOfPlayer(nbaPlayerGameLogs, props[i].playerId)) > 0}

\* with minEdge = 0 the edge filter drops no prop
NoneDroppedAtZero ==
  /\ IsEdgesV1 /\ res.minEdge.n = 0 => res.counts.total = Cardinality(V1Eligible)
  /\ IsEdgesV2 /\ res.minEdge.n = 0 => Len(V2Entries) = Cardinality(V2Eligible)

\* C7 as stated: no entry returned by either edge endpoint reports an absEdge
\* smaller than the request's minEdge, and with minEdge = 0 no prop is dropped
\* by the edge filter.
C7_ReportedNotBelowMinEdge ==
  /\ IsEdgesV1 => \A i \in 1..Len(V1Entries) :
                    V1Entries[i].absEdge * res.minEdge.d >= res.minEdge.n
  /\ IsEdgesV2 => \A i \in 1..Len(V2Entries) :
                    V2Entries[i].absEdge * res.minEdge.d >= res.minEdge.n
  /\ NoneDroppedAtZero

\* C7 amended: the filter compares the absEdge before rounding, so no entry
\* reports an absEdge smaller than minEdge rounded to the endpoint's reporting
\* precision (2 decimals in edges-today-tiered, 3 in edges-tiered-v2), and
\* with minEdge = 0 no prop is dropped by the edge filter.
C7_ReportedNotBelowRoundedMinEdge ==
  /\ IsEdgesV1 => \A i \in 1..Len(V1Entries) :
                    V1Entries[i].absEdge >= ToFixed2(res.minEdge)
  /\ IsEdgesV2 => \A i \in 1..Len(V2Entries) :
                    V2Entries[i].absEdge >= ToFixed3(res.minEdge)
  /\ NoneDroppedAtZero

\* minEdge 3.004: a prop whose absEdge is exactly 3.004 is returned and
\* reports 3.00, and a prop with a smaller edge is dropped
C7_Witness ==
  /\ IsEdgesV1 /\ res.minEdge = Rat(3004, 1)
  /\ \E i \in 1..Len(V1Entries) : V1Entries[i].absEdge = 3000
  /\ res.counts.total < Cardinality(V1Eligible)

\* C8 as stated: every entry's tier is the one the thresholds give for the
\* absEdge the entry reports: A iff absEdge >= 3, B iff 1.5 <= absEdge < 3,
\* C iff absEdge < 1.5 (2 in place of 1.5 in edges-tiered-v2).
C8_TierOfReportedAbsEdge ==
  /\ IsEdgesV1 => \A i \in 1..Len(V1Entries) :
       LET e == V1Entries[i]
       IN /\ e.tier = "A" <=> e.absEdge >= 3000
          /\ e.tier = "B" <=> (1500 <= e.absEdge /\ e.absEdge < 3000)
          /\ e.tier = "C" <=> e.absEdge < 1500
  /\ IsEdgesV2 => \A i \in 1..Len(V2Entries) :
       LET e == V2Entries[i]
       IN /\ e.tier = "A" <=> e.absEdge >= 3000
          /\ e.tier = "B" <=> (2000 <= e.absEdge /\ e.absEdge < 3000)
          /\ e.tier = "C" <=> e.absEdge < 2000

\* C8 amended: the tier is decided before rounding, so it agrees with the
\* thresholds applied to the reported absEdge except on a threshold itself:
\* A implies absEdge >= 3, B implies 1.5 <= absEdge <= 3, C implies
\* absEdge <= 1.5 (2 in place of 1.5 in edges-tiered-v2), and every entry has
\* one of the three tiers.
C8_TierOfReportedAbsEdgeUpToRounding ==
  /\ IsEdgesV1 => \A i \in 1..Len(V1Entries) :
       LET e == V1Entries[i]
       IN /\ e.tier \in {"A", "B", "C"}
          /\ e.tier = "A" => e.absEdge >= 3000
          /\ e.tier = "B" => (1500 <= e.absEdge /\ e.absEdge <= 3000)
          /\ e.tier = "C" => e.absEdge <= 1500
  /\ IsEdgesV2 => \A i \in 1..Len(V2Entries) :
       LET e == V2Entries[i]
       IN /\ e.tier \in {"A", "B", "C"}
          /\ e.tier = "A" => e.absEdge >= 3000
          /\ e.tier = "B" => (2000 <= e.absEdge /\ e.absEdge <= 3000)
          /\ e.tier = "C" => e.absEdge <= 2000

\* a tier-B entry that reports exactly 3 next to a tier-A entry
C8_Witness ==
  /\ IsEdgesV1
  /\ \E i \in 1..Len(res.tiered.B) : res.tiered.B[i].absEdge = 3000
  /\ Len(res.tiered.A) > 0

\* C9: within one response every tier-A entry's reported absEdge is >= every
\* tier-B entry's, and every tier-B entry's is >= every tier-C entry's.
C9_TierMonotonicInAbsEdge ==
  /\ IsEdgesV1 =>
       /\ \A i \in 1..Len(res.tiered.A), j \in 1..Len(res.tiered.B) :
            res.tiered.A[i].absEdge >= res.tiered.B[j].absEdge
       /\ \A i \in 1..Len(res.tiered.B), j \in 1..Len(res.tiered.C) :
            res.tiered.B[i].absEdge >= res.tiered.C[j].absEdge
  /\ IsEdgesV2 =>
       /\ \A i \in 1..Len(res.tiers.A), j \in 1..Len(res.tiers.B) :
            res.tiers.A[i].absEdge >= res.tiers.B[j].absEdge
       /\ \A i \in 1..Len(res.tiers.B), j \in 1..Len(res.tiers.C) :
            res.tiers.B[i].absEdge >= res.tiers.C[j].absEdge

\* a tier-A and a tier-B entry of one response that report the same absEdge
C9_Witness ==
  /\ IsEdgesV1
  /\ \E i \in 1..Len(res.tiered.A), j \in 1..Len(res.tiered.B) :
       res.tiered.A[i].absEdge = res.tiered.B[j].absEdge

\* the entries the loop of each endpoint emits for the answered request
V1Emitted ==
  EdgesLoop(PropsForDate(sgoPropLines, hardrockPropLines, res.date), 1,
            nbaPlayerGameLogs, res.gamesN, res.minEdge, res.date)

V2Emitted ==
  V2Loop(PropsForDate(sgoPropLines, hardrockPropLines, res.date), 1,
         nbaPlayerGameLogs, res.gamesUsed, res.minEdge, res.mode, res.date)

SortedByAbsEdge(list) ==
  \A i, j \in 1..Len(list) : i < j => list[i].absEdge >= list[j].absEdge

InExactlyOneList(e, lists) ==
  Cardinality({t \in {"A", "B", "C"} :
                 \E j \in 1..Len(lists[t]) : lists[t][j] = e}) = 1

\* C10: each tier list of either endpoint is sorted non-increasing by absEdge,
\* every emitted edge is in exactly one tier list (and the lists hold nothing
\* else), counts.A/B/C are the list lengths, and counts.total = A + B + C in
\* edges-today-tiered.
C10_TierListsSortedAndCounted ==
  /\ IsEdgesV1 =>
       /\ \A t \in {"A", "B", "C"} : SortedByAbsEdge(res.tiered[t])
       /\ \A i \in 1..Len(V1Emitted) : InExactlyOneList(V1Emitted[i], res.tiered)
       /\ Len(V1Entries) = Len(V1Emitted)
       /\ res.counts.A = Len(res.tiered.A) /\ res.counts.B = Len(res.tiered.B)
       /\ res.counts.C = Len(res.tiered.C)
       /\ res.counts.total = res.counts.A + res.counts.B + res.counts.C
  /\ IsEdgesV2 =>
       /\ \A t \in {"A", "B", "C"} : SortedByAbsEdge(res.tiers[t])
       /\ \A i \in 1..Len(V2Emitted) : InExactlyOneList(V2Emitted[i], res.tiers)
       /\ Len(V2Entries) = Len(V2Emitted)
       /\ res.counts.A = Len(res.tiers.A) /\ res.counts.B = Len(res.tiers.B)
       /\ res.counts.C = Len(res.tiers.C)

\* a tier list of two entries that the sort had to exchange, next to a
\* non-empty second list
C10_Witness ==
  /\ IsEdgesV1 /\ res.counts.A = 2 /\ res.counts.B = 1 /\ res.counts.total = 3
  /\ res.tiered.A[1].absEdge > res.tiered.A[2].absEdge
  /\ res.tiered.A[1].source = "hardrock" /\ res.tiered.A[2].source = "sgo"

(***************************************************************************)
(* Claims about the projections                                            *)
(***************************************************************************)
RECURSIVE SumOver(_, _)
SumOver(S, f) ==
  IF S = {} THEN 0 ELSE LET x == CHOOSE x \in S : TRUE IN f[x] + SumOver(S \ {x}, f)

IsRollingCall == req.op = "rollingProjection"

\* the stored logs of the asked player that carry a finite value of the stat
RollingValid ==
  {i \in 1..Len(nbaPlayerGameLogs) :
     /\ IF req.playerKey.playerId # <<>>
        THEN nbaPlayerGameLogs[i].playerId = req.playerKey.playerId
        ELSE ToLower(Trim(nbaPlayerGameLogs[i].playerName))
               = ToLower(req.playerKey.playerName)
     /\ getStatFromLog(nbaPlayerGameLogs[i], normalizeStatType(req.stat)) # <<>>}

\* the N most recent of them
RollingChosen ==
  {i \in RollingValid :
     Cardinality({j \in RollingValid :
                    StrLess(nbaPlayerGameLogs[i].gameDate, nbaPlayerGameLogs[j].gameDate)})
       < req.gamesN}

\* C18: for logs with well-formed ISO dates, rollingProjection returns the
\* arithmetic mean of the stat over the N most recent logs of the player that
\* carry a finite value for it (logs lacking it are passed over), with
\* gamesUsed = min(N, number of such logs); with no such log it returns no
\* projection; with N = 1 it is the value of the most recent valid log,
\* whatever the stored order.
C18_RollingMeanOfMostRecentValid ==
  IsRollingCall =>
    LET stat == normalizeStatType(req.stat)
        value == [i \in RollingChosen |-> getStatFromLog(nbaPlayerGameLogs[i], stat)[1]]
    IN IF RollingValid = {} THEN ~res.ok
       ELSE /\ res.ok /\ res.stat = stat
            /\ res.gamesUsed = Min(req.gamesN, Cardinality(RollingValid))
            /\ res.gamesUsed = Cardinality(RollingChosen)
            /\ res.projection.d > 0
            /\ res.projection.n * res.gamesUsed
                 = SumOver(RollingChosen, value) * res.projection.d
            /\ req.gamesN = 1 =>
                 \A i \in RollingChosen : res.projection.n = value[i] * res.projection.d

\* N = 1 on logs stored oldest first, the newest one without the stat: the
\* projection is the value of the newest log that has it
C18_Witness ==
  /\ IsRollingCall /\ req.gamesN = 1 /\ res.ok /\ res.projection = Rat(30000, 1)
  /\ Len(nbaPlayerGameLogs) = 3
  /\ nbaPlayerGameLogs[1].gameDate = G1 /\ nbaPlayerGameLogs[2].gameDate = G3
  /\ nbaPlayerGameLogs[2].pts = <<>>

\* the projection behind an entry, before rounding
V1Unrounded(e) ==
  rollingProjection(nbaPlayerGameLogs, extractPropKey(e.rawProp), e.rawProp.statType,
                    res.gamesN).projection

V2Unrounded(e) ==
  IF res.mode = S_flat
  THEN flatAvg(LogsOfPlayer(nbaPlayerGameLogs, e.playerId), statToField(e.statType),
               res.gamesUsed).value
  ELSE weightedAvg(LogsOfPlayer(nbaPlayerGameLogs, e.playerId), statToField(e.statType),
                   res.gamesUsed).value

\* C11 as stated: every emitted entry has absEdge = |edge|, its edge is > 0
\* exactly when the unrounded projection exceeds the line, and the reported
\* edge differs from reported projection minus reported line by at most the
\* rounding unit.
C11_EdgeIsProjectionMinusLine ==
  /\ IsEdgesV1 => \A i \in 1..Len(V1Entries) :
       LET e == V1Entries[i]
       IN /\ e.absEdge = Abs(e.edge)
          /\ e.edge > 0 <=> RatLess(Rat(e.rawProp.line[1], 1), V1Unrounded(e))
          /\ Abs(e.edge - (e.projection - e.line)) <= 10
  /\ IsEdgesV2 => \A i \in 1..Len(V2Entries) :
       LET e == V2Entries[i]
       IN /\ e.absEdge = Abs(e.edge)
          /\ e.edge > 0 <=> RatLess(Rat(e.line, 1), V2Unrounded(e))
          /\ Abs(e.edge - (e.proj - e.line)) <= 1

\* C11 amended: every emitted entry has absEdge = |edge|; its edge is the
\* unrounded projection minus the line, rounded to the reporting precision
\* (within half a unit of it), so edge > 0 only when the projection exceeds
\* the line and edge < 0 only when it is below (a difference under half a unit
\* is reported as 0); the reported edge differs from reported projection minus
\* reported line by at most the rounding unit.
C11_EdgeIsRoundedProjectionMinusLine ==
  /\ IsEdgesV1 => \A i \in 1..Len(V1Entries) :
       LET e == V1Entries[i]
           u == V1Unrounded(e)
           l == e.rawProp.line[1]
       IN /\ e.absEdge = Abs(e.edge)
          /\ 2 * Abs(e.edge * u.d - (u.n - l * u.d)) <= 10 * u.d
          /\ e.edge > 0 => RatLess(Rat(l, 1), u)
          /\ e.edge < 0 => RatLess(u, Rat(l, 1))
          /\ Abs(e.edge - (e.projection - e.line)) <= 10
  /\ IsEdgesV2 => \A i \in 1..Len(V2Entries) :
       LET e == V2Entries[i]
           u == V2Unrounded(e)
       IN /\ e.absEdge = Abs(e.edge)
          /\ 2 * Abs(e.edge * u.d - (u.n - e.line * u.d)) <= u.d
          /\ e.edge > 0 => RatLess(Rat(e.line, 1), u)
          /\ e.edge < 0 => RatLess(u, Rat(e.line, 1))
          /\ Abs(e.edge - (e.proj - e.line)) <= 1

\* a projection of 25 against a line of 24.996: the entry reports edge 0,
\* next to an entry with a negative edge
C11_Witness ==
  /\ IsEdgesV1
  /\ \E i \in 1..Len(V1Entries) :
       /\ V1Entries[i].edge = 0
       /\ RatLess(Rat(V1Entries[i].rawProp.line[1], 1), V1Unrounded(V1Entries[i]))
  /\ \E i \in 1..Len(V1Entries) : V1Entries[i].edge < 0

\* C15: whatever the games parameter is, the window size N the edge endpoints
\* use lies in [1, 30], and no edge is computed from more than 30 game logs.
C15_WindowWithin1To30 ==
  /\ IsEdgesV1 =>
       /\ 1 <= res.gamesN /\ res.gamesN <= 30
       /\ \A i \in 1..Len(V1Entries) : V1Entries[i].gamesUsed <= 30
  /\ IsEdgesV2 =>
       /\ 1 <= res.gamesUsed /\ res.gamesUsed <= 30
       /\ \A i \in 1..Len(V2Entries) : V2Entries[i].gp <= 30

\* the mean of vals, newest first, with weights N, N - 1, ...
WeightedMean(vals, N) ==
  Rat(SumSeq([i \in 1..Len(vals) |-> (N - (i - 1)) * vals[i]]),
      SumSeq([i \in 1..Len(vals) |-> N - (i - 1)]))

\* the values rollingProjection collects for an entry of edges-today-tiered
V1WindowVals(e) ==
  CollectVals(SortLogsForProjection(
                SelectSeq(nbaPlayerGameLogs, LAMBDA g : g.playerId = e.playerId)),
              1, e.stat, res.gamesN, <<>>)

\* the values of the window of an entry of edges-tiered-v2
V2Window(e) ==
  LET arr == LogsOfPlayer(nbaPlayerGameLogs, e.playerId)
  IN SubSeq(arr, 1, Min(res.gamesUsed, Len(arr)))

\* C16: when no projection mode is supplied, the projection behind each
\* emitted edge is the recency-weighted mean of the window (weights N, N-1,
\* ... newest first), in edges-today-tiered and in edges-tiered-v2.
C16_DefaultModeIsWeighted ==
  /\ IsEdgesV1 => \A i \in 1..Len(V1Entries) :
       LET e == V1Entries[i]
       IN e.playerId # <<>> =>
            e.projection = ToFixed2(WeightedMean(V1WindowVals(e), res.gamesN))
  /\ IsEdgesV2 /\ req.mode = <<>> => \A i \in 1..Len(V2Entries) :
       LET e == V2Entries[i]
           w == V2Window(e)
       IN e.proj = ToFixed3(WeightedMean(
                     [k \in 1..Len(w) |-> FieldOrZero(w[k], statToField(e.statType))],
                     res.gamesUsed))

\* the stored value of a log field, <<>> when the log lacks it
RawField(g, field) ==
  CASE field = "pts" -> g.pts [] field = "reb" -> g.reb
    [] field = "ast" -> g.ast [] OTHER -> g.fg3m

\* the positions of the window of a v2 entry whose log carries the stat
V2Carrying(e) ==
  {k \in 1..Len(V2Window(e)) : RawField(V2Window(e)[k], statToField(e.statType)) # <<>>}

\* C17: an edge is emitted only when at least one game log of the player's
\* window carries a finite value of the stat, in edges-today-tiered and in
\* edges-tiered-v2 (flat and weighted).
C17_ProjectionNeedsAFiniteValue ==
  /\ IsEdgesV1 => \A i \in 1..Len(V1Entries) :
       V1Entries[i].gamesUsed >= 1
       /\ (V1Entries[i].playerId # <<>> => Len(V1WindowVals(V1Entries[i])) >= 1)
  /\ IsEdgesV2 => \A i \in 1..Len(V2Entries) : V2Carrying(V2Entries[i]) # {}

\* the window of a row of /api/nba/projections-weighted
PWWindow(r) ==
  LET arr == LogsOfPlayer(nbaPlayerGameLogs, r.playerId)
  IN SubSeq(arr, 1, Min(res.gamesUsed, Len(arr)))

\* x lies within [min, max] of the values of the field that the logs of the
\* window carry (nothing is asked when none carries it)
WithinCarried(x, w, field) ==
  LET carried == {RawField(w[k], field)[1] :
                    k \in {k \in 1..Len(w) : RawField(w[k], field) # <<>>}}
  IN carried # {} =>
       /\ \E v \in carried : v * x.d <= x.n
       /\ \E v \in carried : x.n <= v * x.d

\* C19: in weighted mode the i-th most recent game of the window (from 0)
\* gets weight N - i (positive, strictly decreasing, N for the newest and 1
\* for the oldest of exactly N logs), and the projection lies within
\* [min, max] of the stat values of the windowed logs that carry the stat.
C19_WeightsAndRange ==
  /\ req.op = "projections-weighted" => \A i \in 1..Len(res.projections) :
       LET r == res.projections[i]
           w == PWWindow(r)
       IN /\ r.gp = Len(w) /\ r.gp >= 1
          /\ 2 * r.weightSum = r.gp * (2 * res.gamesUsed - r.gp + 1)
          /\ res.gamesUsed - (r.gp - 1) >= 1
          /\ r.pts.d = r.weightSum
          /\ WithinCarried(r.pts, w, "pts") /\ WithinCarried(r.reb, w, "reb")
  /\ IsEdgesV2 /\ res.mode = S_weighted => \A i \in 1..Len(V2Entries) :
       LET e == V2Entries[i]
       IN WithinCarried(V2Unrounded(e), V2Window(e), statToField(e.statType))

(***************************************************************************)
(* Claims about dates                                                      *)
(***************************************************************************)
\* the well-formed dates of the stored prop lines of both sources
StoredPropDates ==
  {d \in {sgoPropLines[i].date : i \in 1..Len(sgoPropLines)}
           \cup {hardrockPropLines[i].date : i \in 1..Len(hardrockPropLines)} :
     isValidISODate(d)}

\* d is the date the rule picks for today
IsActiveDateFor(d, todayET) ==
  IF StoredPropDates = {} THEN d = todayET
  ELSE IF \E e \in StoredPropDates : ~StrLess(e, todayET)
  THEN /\ d \in StoredPropDates /\ ~StrLess(d, todayET)
       /\ \A e \in StoredPropDates : ~StrLess(e, todayET) => ~StrLess(e, d)
  ELSE /\ d \in StoredPropDates
       /\ \A e \in StoredPropDates : ~StrLess(d, e)

\* C12: without a date, edges-today-tiered uses the smallest well-formed prop
\* date >= todayET, else the largest well-formed prop date, else todayET;
\* every returned edge carries that date and comes from a prop of that date.
C12_ActiveDateOfEdgesToday ==
  IsEdgesV1 /\ req.date = <<>> =>
    /\ IsActiveDateFor(res.date, req.todayET)
    /\ \A i \in 1..Len(V1Entries) :
         V1Entries[i].date = res.date /\ V1Entries[i].rawProp.date = res.date
    /\ res.counts.total <= Len(PropsForDate(sgoPropLines, hardrockPropLines, res.date))

\* props of 2025-01-05, of 2025-01-06 and of a malformed date are stored and
\* today is 2025-01-05: the edges are those of 2025-01-05, not of the latest date
C12_Witness ==
  /\ IsEdgesV1 /\ req.date = <<>> /\ req.todayET = D1 /\ res.date = D1
  /\ StoredPropDates = {D1, D2}
  /\ \E i \in 1..Len(sgoPropLines) : sgoPropLines[i].date = BadDate
  /\ res.counts.total >= 1

\* C13: for every stored state and every today, the activeDate of
\* /api/props/active-date, the activeDate of /api/pt/quick-links and the dates
\* edges-today-tiered and edges-tiered-v2 use when the date is left out are
\* all equal.
C13_OneDateResolutionRule ==
  \A todayET \in Todays :
    LET a == ResolveActiveDate(KnownDates(sgoPropLines, hardrockPropLines, propsArchive),
                               todayET)
        q == todayET
        v1 == EdgesTodayTieredResponse(<<>>, <<>>, <<>>, todayET, nbaPlayerGameLogs,
                                       sgoPropLines, hardrockPropLines).date
        v2 == EdgesTieredV2Response(<<>>, <<>>, <<>>, <<>>, todayET, nbaPlayerGameLogs,
                                    sgoPropLines, hardrockPropLines).date
    IN a = q /\ a = v1 /\ a = v2

\* C14: a supplied date that is not of the form YYYY-MM-DD is answered with a
\* validation error by both edge endpoints, line-moves, archive-date and
\* simulate-line-move, and the stored data stay as they were.
C14_MalformedDateRejected ==
  [][(/\ req'.op \in {"edges-today-tiered", "edges-tiered-v2", "line-moves",
                      "archive-date", "simulate-line-move"}
      /\ req'.date # <<>> /\ ~isValidISODate(req'.date))
       => res'.status = 400 /\ UNCHANGED dbVars]_vars

(***************************************************************************)
(* Claims about the read-side computations                                 *)
(***************************************************************************)
ReadOps == {"leaders", "edges-today-tiered", "edges-tiered-v2", "projections",
            "projections-weighted", "line-moves"}

\* C20: leaders, edges-today-tiered, edges-tiered-v2, projections,
\* projections-weighted and line-moves leave the stored game logs (content and
\* order), prop lines and propsArchive as they were, and a call that repeats
\* the call before it gets the same answer.
C20_ReadsLeaveStoreAndRepeat ==
  [][req'.op \in ReadOps =>
       /\ UNCHANGED dbVars
       /\ (req' = req => res' = res)]_vars

\* edges-tiered-v2 has answered with an edge while the logs are stored oldest
\* first and an archive entry exists
C20_Witness ==
  /\ IsEdgesV2 /\ Len(V2Entries) >= 1
  /\ Len(nbaPlayerGameLogs) = 2
  /\ nbaPlayerGameLogs[1].gameDate = G1 /\ nbaPlayerGameLogs[2].gameDate = G2
  /\ DOMAIN propsArchive # {}

(***************************************************************************)
(* Claims about the leaderboards                                           *)
(***************************************************************************)
IsLeadersAnswer == req.op = "leaders" /\ res.status = 200

Boards == {res.leaders.points, res.leaders.rebounds, res.leaders.assists,
           res.leaders.threes}

\* the identity of a log's or an entry's player: the id, else the name in
\* lower case without surrounding blanks; <<>> when it has neither
GroupOf(x) ==
  IF x.playerId # <<>> THEN <<"id", x.playerId>>
  ELSE IF Trim(x.playerName) # <<>> THEN <<"name", ToLower(Trim(x.playerName))>>
  ELSE <<>>

HasFiniteStat(lg) ==
  IsFinite(lg.pts) \/ IsFinite(lg.reb) \/ IsFinite(lg.ast) \/ IsFinite(lg.fg3m)

\* the stored logs of a group that carry a finite stat
CountedLogs(grp) ==
  {i \in 1..Len(nbaPlayerGameLogs) :
     GroupOf(nbaPlayerGameLogs[i]) = grp /\ HasFiniteStat(nbaPlayerGameLogs[i])}

\* C21: every leaderboard is sorted non-increasing by perGame, has at most 25
\* entries, holds each player group at most once, every entry has gp >= 1,
\* and a player none of whose logs carries a finite stat is in no leaderboard.
C21_BoardsSortedCutAndCounted ==
  IsLeadersAnswer =>
    \A b \in Boards :
      /\ Len(b) <= 25
      /\ \A i \in 1..Len(b) :
           /\ i < Len(b) => b[i].perGame >= b[i + 1].perGame
           /\ b[i].gp >= 1
           /\ CountedLogs(GroupOf(b[i])) # {}
           /\ \A j \in 1..Len(b) : GroupOf(b[i]) = GroupOf(b[j]) => i = j

\* ManyPlayers players have counted games, the points board holds 25 of them
\* and its values are not all equal
C21_Witness ==
  /\ IsLeadersAnswer
  /\ Cardinality({GroupOf(nbaPlayerGameLogs[i]) : i \in 1..Len(nbaPlayerGameLogs)}) > 25
  /\ Len(res.leaders.points) = 25
  /\ res.leaders.points[1].perGame > res.leaders.points[25].perGame

\* the groups that have a counted log
CountedGroups ==
  {GroupOf(nbaPlayerGameLogs[i]) : i \in 1..Len(nbaPlayerGameLogs)}
    \ {g \in {GroupOf(nbaPlayerGameLogs[i]) : i \in 1..Len(nbaPlayerGameLogs)} :
         g = <<>> \/ CountedLogs(g) = {}}

\* the sum of a stat over the counted logs of a group, a missing value as 0
StatSum(grp, field) ==
  SumOver(CountedLogs(grp),
          [i \in 1..Len(nbaPlayerGameLogs) |->
             LET v == RawField(nbaPlayerGameLogs[i], field)
             IN IF IsFinite(v) THEN v[1] ELSE 0])

BoardField(name) ==
  CASE name = "points" -> "pts" [] name = "rebounds" -> "reb"
    [] name = "assists" -> "ast" [] OTHER -> "fg3m"

\* C22: logs are grouped by playerId when present, else by the lower-cased
\* trimmed name; gp is the number of the group's logs with a finite stat and
\* perGame is the stat's sum over these logs (missing as 0) divided by gp and
\* rounded to 2 decimals, so gp * perGame is the sum up to that rounding.
C22_GroupsGamesAndAverages ==
  IsLeadersAnswer =>
    \A name \in {"points", "rebounds", "assists", "threes"} :
      LET b == res.leaders[name]
      IN /\ \A i \in 1..Len(b) :
              LET grp == GroupOf(b[i])
                  sum == StatSum(grp, BoardField(name))
              IN /\ grp \in CountedGroups
                 /\ b[i].gp = Cardinality(CountedLogs(grp))
                 /\ b[i].perGame = ToFixed2(Rat(sum, b[i].gp))
                 /\ 2 * Abs(b[i].gp * b[i].perGame - sum) <= 10 * b[i].gp
         /\ Cardinality(CountedGroups) <= 25 =>
              {GroupOf(b[i]) : i \in 1..Len(b)} = CountedGroups

\* two logs without id whose names differ in case and blanks form one entry
\* with gp = 2; its points average is one that the rounding changed and its
\* assists average counts the log without assists as 0
C22_Witness ==
  /\ IsLeadersAnswer
  /\ \E i \in 1..Len(res.leaders.points) :
       LET e == res.leaders.points[i]
       IN /\ e.playerId = <<>> /\ e.gp = 2
          /\ e.gp * e.perGame # StatSum(GroupOf(e), "pts")
  /\ \E i \in 1..Len(res.leaders.assists) :
       LET e == res.leaders.assists[i]
       IN e.playerId = <<>> /\ e.gp = 2 /\ e.perGame = 1500

(***************************************************************************)
(* Claims about the stat labels                                            *)
(***************************************************************************)
\* the label, in lower case, satisfies the rule of the threes
IsThreesLabel(s) ==
  \/ /\ Includes(s, <<51>>)
     /\ \/ Includes(s, <<109, 97, 100, 101>>)
        \/ Includes(s, <<112, 109>>)
        \/ Includes(s, <<116, 104, 114, 101, 101>>)
  \/ s = <<51, 112, 109>>

\* the label, in lower case, satisfies the rule of the points, rebounds or assists
IsOtherLabel(s) ==
  \/ Includes(s, <<112, 111, 105, 110, 116>>) \/ s = <<112, 116, 115>>
  \/ Includes(s, <<114, 101, 98, 111, 117, 110, 100>>) \/ s = <<114, 101, 98>>
  \/ Includes(s, <<97, 115, 115, 105, 115, 116>>) \/ s = <<97, 115, 116>>

\* C23: every label that contains "3" and one of "made", "pm", "three"
\* (whatever the case) or equals "3pm" maps to 3PM; every label that matches
\* none of the four rules maps to null; each label gets exactly one tag.
C23_ThreesLabelsMapToThrees ==
  req.op = "normalizeStatType" =>
    LET s == ToLower(req.statType)
    IN /\ IsThreesLabel(s) => res.tag = "3PM"
       /\ ~IsThreesLabel(s) /\ ~IsOtherLabel(s) => res.tag = ""
       /\ res.tag \in {"PTS", "REB", "AST", "3PM", ""}

(***************************************************************************)
(* Claims about the imports                                                *)
(***************************************************************************)
\* C24: after every accepted game-log import no two stored logs share a
\* (playerId, gameDate) pair, every stored log has a non-empty playerId and
\* gameDate, and the response has total = previous total + added with
\* added <= received.
C24_LogsUniqueAndCounted ==
  [][req'.op = "import-nba-game-logs" /\ res'.status = 200 =>
       /\ \A i, j \in 1..Len(nbaPlayerGameLogs') :
            /\ nbaPlayerGameLogs'[i].playerId = nbaPlayerGameLogs'[j].playerId
            /\ nbaPlayerGameLogs'[i].gameDate = nbaPlayerGameLogs'[j].gameDate
            => i = j
       /\ \A i \in 1..Len(nbaPlayerGameLogs') :
            /\ nbaPlayerGameLogs'[i].playerId # <<>>
            /\ nbaPlayerGameLogs'[i].gameDate # <<>>
       /\ res'.total = Len(nbaPlayerGameLogs) + res'.added
       /\ res'.added <= res'.received]_vars

\* C25: the leaderboards that GET /api/nba/stats/leaders returns are those
\* computeLeadersFromLogs gives for the game logs stored at that time,
\* whatever warm, import and leaders requests came before.
C25_LeadersOfStoredLogs ==
  IsLeadersAnswer => res.leaders = computeLeadersFromLogs(nbaPlayerGameLogs)

\* C26: for every stored state and every batch, sending the batch a second
\* time adds nothing: the collection after two imports of the batch is the
\* collection after one, for sgo props, hardrock props and game logs, also
\* for rows whose name or stat label has surrounding blanks or capitals.
C26_ImportTwiceIsImportOnce ==
  /\ \A rows \in Batches(ProjSgoRows) :
       /\ LET once == ImportProps(sgoPropLines, rows, "sgo")
          IN ImportProps(once, rows, "sgo") = once
       /\ LET once == ImportProps(hardrockPropLines, rows, "hardrock")
          IN ImportProps(once, rows, "hardrock") = once
  /\ \A rows \in Batches(ImportLogPool) :
       LET once == ImportLogs(nbaPlayerGameLogs, rows)
       IN ImportLogs(once, rows) = once

(***************************************************************************)
(* Claims about overlapping requests                                       *)
(***************************************************************************)
\* the burst is over and two handlers took part in it
BurstOfTwoDone == Len(inflight) = 2 /\ AllDone

\* C27: mutating requests behave atomically: when two mutating requests
\* (game-log import, prop import, archive-date, simulate-line-move) overlap,
\* each doing readDB, modify, writeDB, the stored database afterwards is the
\* one that results from applying both, one after the other in some order,
\* to the database the burst started from; no request's update is lost.
C27_OverlappingRequestsBothApplied ==
  BurstOfTwoDone =>
    LET start == inflight[1].db
        a == inflight[1].r
        b == inflight[2].r
    IN DbNow \in {ApplyRequest(b, ApplyRequest(a, start)),
                  ApplyRequest(a, ApplyRequest(b, start))}

(***************************************************************************)
(* Claims about simulate-line-move                                         *)
(***************************************************************************)
\* the source and the stat a simulate request names
SimSource(r) == ToLower(IF r.source = <<>> THEN <<115, 103, 111>> ELSE r.source)
SimStat(r) == ToLower(IF r.statType = <<>> THEN <<112, 111, 105, 110, 116, 115>>
                      ELSE r.statType)

\* the props of a list that a simulate request matches
SimMatches(list, r) ==
  {i \in 1..Len(list) : /\ list[i].date = r.date
                        /\ ToLower(list[i].statType) = SimStat(r)
                        /\ list[i].line # <<>>}

\* list2 is list with the line of its first match replaced by newLine
OnlyFirstMatchSet(list, list2, r, newLine) ==
  /\ Len(list2) = Len(list)
  /\ SimMatches(list, r) # {}
  /\ \A i \in 1..Len(list) :
       IF i \in SimMatches(list, r) /\ \A j \in SimMatches(list, r) : i <= j
       THEN list2[i] = [list[i] EXCEPT !.line = <<newLine>>]
       ELSE list2[i] = list[i]

\* the frame of a simulate step: the other list, the logs and the archive
\* stay, and a request answered 400 or 404 changes nothing
SimFrame ==
  /\ nbaPlayerGameLogs' = nbaPlayerGameLogs /\ propsArchive' = propsArchive
  /\ res'.status = 200 /\ SimSource(req') = <<115, 103, 111>>
       => hardrockPropLines' = hardrockPropLines
  /\ res'.status = 200 /\ SimSource(req') # <<115, 103, 111>>
       => sgoPropLines' = sgoPropLines
  /\ res'.status # 200 => res'.status \in {400, 404} /\ UNCHANGED dbVars

SimList == IF SimSource(req') = <<115, 103, 111>> THEN sgoPropLines ELSE hardrockPropLines
SimListAfter == IF SimSource(req') = <<115, 103, 111>> THEN sgoPropLines' ELSE hardrockPropLines'

\* C28: a successful simulate-line-move changes the line of exactly one
\* stored prop, the first match of its source's list, from old to
\* old + delta, and leaves everything else; a request answered 400 or 404
\* changes nothing.
C28_OneLineMovedByDelta ==
  [][req'.op = "simulate-line-move" =>
       /\ SimFrame
       /\ res'.status = 200 =>
            /\ SimListAfter # SimList
            /\ \E i \in SimMatches(SimList, req') :
                 /\ 10 * SimListAfter[i].line[1] = 10 * SimList[i].line[1] + res'.updated.delta
                 /\ OnlyFirstMatchSet(SimList, SimListAfter, req', SimListAfter[i].line[1])]_vars

\* C28 (amended): the first match gets old + delta rounded to 3 decimals, so
\* at most one line changes.
C28_FirstMatchGetsRoundedSum ==
  [][req'.op = "simulate-line-move" =>
       /\ SimFrame
       /\ res'.status = 200 =>
            \E i \in SimMatches(SimList, req') :
              /\ 2 * Abs(10 * SimListAfter[i].line[1]
                           - (10 * SimList[i].line[1] + res'.updated.delta)) <= 10
              /\ res'.updated.oldLine = SimList[i].line[1]
              /\ res'.updated.newLine = SimListAfter[i].line[1]
              /\ OnlyFirstMatchSet(SimList, SimListAfter, req', SimListAfter[i].line[1])]_vars

\* a successful simulate-line-move found two matching props in its list and
\* moved the line of the first one
C28_Witness ==
  /\ req.op = "simulate-line-move" /\ res.status = 200
  /\ res.updated.newLine # res.updated.oldLine
  /\ \E i, j \in 1..Len(sgoPropLines) :
       /\ i < j
       /\ sgoPropLines[i].date = req.date /\ sgoPropLines[j].date = req.date
       /\ ToLower(sgoPropLines[i].statType) = SimStat(req)
       /\ ToLower(sgoPropLines[j].statType) = SimStat(req)
       /\ sgoPropLines[i].line = <<res.updated.newLine>>
       /\ sgoPropLines[j].line # <<>>
  /\ SimSource(req) = <<115, 103, 111>>

\* the snapshot of the date is what archiving it now would store: the state
\* is as the last mutating request, an archive-date of this date, left it
JustArchived(date) ==
  /\ date \in DOMAIN propsArchive
  /\ propsArchive[date].sgo = SelectSeq(sgoPropLines, LAMBDA p : p.date = date)
  /\ propsArchive[date].hardrock = SelectSeq(hardrockPropLines, LAMBDA p : p.date = date)

\* the moves a line-moves request for the date and source would get now
\* (limit 50)
MovesAfter(date, source) ==
  LineMovesResponse(date, source, <<>>, propsArchive', sgoPropLines',
                    hardrockPropLines').moves

\* C29: when a successful simulate-line-move with delta d follows the
\* archiving of its date with no other mutating request in between, the next
\* line-moves request for the date, for all sources or for the source of the
\* simulate, reports a move with that source, that stat and delta = d.
C29_SimulatedMoveIsReported ==
  [][(/\ req'.op = "simulate-line-move" /\ res'.status = 200
      /\ JustArchived(req'.date))
       => \A source \in {<<>>, SimSource(req')} :
            \E k \in 1..Len(MovesAfter(req'.date, source)) :
              LET m == MovesAfter(req'.date, source)[k]
              IN /\ m.source = (IF SimSource(req') = <<115, 103, 111>> THEN "sgo"
                                ELSE "hardrock")
                 /\ ToLower(m.statType) = SimStat(req')
                 /\ 10 * m.delta = res'.updated.delta]_vars

(***************************************************************************)
(* Claims about the agreement of the two edge endpoints                    *)
(***************************************************************************)
\* "points", "rebounds", "assists", "3pm": the labels both endpoints know
CommonLabels == {<<112, 111, 105, 110, 116, 115>>,
                 <<114, 101, 98, 111, 117, 110, 100, 115>>,
                 <<97, 115, 115, 105, 115, 116, 115>>,
                 <<51, 112, 109>>}

\* the edges of 2025-01-05 that edges-today-tiered gives for window n, as
\* (source, playerId, statType, line, gamesUsed, projection, edge), for the
\* props with an id and a common label
V1EdgesFor(n) ==
  LET r == EdgesTodayTieredResponse(D1, <<>>, <<n>>, D1, nbaPlayerGameLogs,
                                    sgoPropLines, hardrockPropLines)
      es == r.tiered.A \o r.tiered.B \o r.tiered.C
  IN {<<es[i].source, es[i].rawProp.playerId, es[i].rawProp.statType,
        es[i].rawProp.line[1], es[i].gamesUsed, es[i].projection, es[i].edge>> :
        i \in {k \in 1..Len(es) : /\ es[k].rawProp.playerId # <<>>
                                  /\ ToLower(es[k].rawProp.statType) \in CommonLabels}}

\* the same for edges-tiered-v2 with mode=flat
V2FlatEdgesFor(n) ==
  LET r == EdgesTieredV2Response(D1, <<n>>, <<>>, <<102, 108, 97, 116>>, D1,
                                 nbaPlayerGameLogs, sgoPropLines, hardrockPropLines)
      es == r.tiers.A \o r.tiers.B \o r.tiers.C
  IN {<<es[i].source, es[i].playerId, es[i].statType, es[i].line, es[i].gp,
        es[i].proj, es[i].edge>> :
        i \in {k \in 1..Len(es) : /\ es[k].playerId # <<>>
                                  /\ ToLower(es[k].statType) \in CommonLabels}}

\* C30: for the same stored data, date and window, edges-tiered-v2 with
\* mode=flat and edges-today-tiered emit edges for the same props (those with
\* a playerId and a label both recognise) with the same games-used count,
\* projection and edge.
C30_FlatV2AgreesWithV1 ==
  \A n \in 1..MaxProjLogs : V1EdgesFor(n) = V2FlatEdgesFor(n)

====
